---- MODULE Spec2Model ----
(***************************************************************************)
(* A model of the video-generation pipeline of wyvernkalyx/ai-slop:        *)
(*   - the Pipeline orchestrator (src/src/pipeline.py),                    *)
(*   - the asynchronous web gateway (src/app_fixed_async.py),              *)
(*   - the deduplication cache (src/src/utils/dedup.py) and its use by     *)
(*     the Reddit ingestor (src/src/modules/ingest_reddit.py),             *)
(*   - the video-assembly strategies (src/src/modules/assemble_*.py),      *)
(*   - the YouTube uploader (src/src/modules/upload_youtube.py),           *)
(*   - the speech-synthesis dispatcher (src/src/modules/tts.py),           *)
(*   - the topic classifier (src/src/modules/classify.py),                 *)
(*   - the production runners (src/production_pipeline.py and              *)
(*     src/production_simple.py),                                          *)
(*   - the JSON repair utility (src/src/utils/json_fixer.py),              *)
(*   - the script generator (src/src/modules/script_gen.py),               *)
(*   - the post cache of the synchronous gateway (src/app_enhanced.py),    *)
(*   - the text splitter of the speech module (src/src/modules/tts.py),    *)
(*   - concurrent jobs of the Fixed assembly strategy                      *)
(*     (src/src/modules/assemble_fixed.py),                                *)
(*   - the upload endpoint of the synchronous gateway                      *)
(*     (src/app_enhanced.py).                                              *)
(* Each subsystem has its own specification over the shared variables; the *)
(* variables of the other subsystems stay at their idle values.            *)
(***************************************************************************)
EXTENDS Integers, Sequences, FiniteSets, TLC

VARIABLES
    \* ---- Pipeline (src/src/pipeline.py) ----
    dry_run,          \* Pipeline.dry_run
    upload_enabled,   \* config.is_feature_enabled('upload')
    existing_script,  \* what output_dir.glob('script_*.json') finds: none | valid | malformed
    pc,               \* position of Pipeline.run()
    step_idx,         \* index of the step run() is at (1..8)
    state,            \* Pipeline.state
    raised,           \* the exception in flight / caught by run(): NoExc or [step, text]
    log,              \* the "Running step: <name>" lines of the logger, in order
    state_file,       \* pipeline_state.json: the sequence of states written to it
    \* ---- Asynchronous gateway (src/app_fixed_async.py) ----
    clock,            \* datetime.now() in whole seconds
    job_status,       \* the module-level dict job_status
    job_threads,      \* the module-level dict job_threads
    threads,          \* the background threads started so far
    out_dir,          \* data/out/<job_id>: the kinds of file in each job directory
    poll,             \* the last response of GET /status/<job_id>
    \* ---- Deduplication cache (src/src/utils/dedup.py) ----
    enabled,          \* DeduplicationManager.enabled
    today,            \* datetime.now() in whole days
    cache,            \* DeduplicationManager.cache, per manager instance
    cache_file,       \* the JSON cache file: whether it exists, parses, and its dict
    last,             \* the last DeduplicationManager call and what it returned
    \* ---- Reddit ingestor (src/src/modules/ingest_reddit.py) ----
    ing_dry_run,      \* RedditIngestor.dry_run
    posts,            \* the list fetch_trending_posts returned last
    best,             \* what get_best_post returned last
    processed,        \* the submissions get_best_post has returned, with the day
    fetched,          \* the day of the last fetch and `processed` as it was then
    \* ---- Video assembly (src/src/modules/assemble_*.py) ----
    asm_in,           \* the inputs of one assembly call
    asm_out,          \* what the call returned (or raised)
    \* ---- YouTube uploader (src/src/modules/upload_youtube.py) ----
    up_in,            \* the arguments of one upload_video call and the uploader's state
    up_pc,            \* position of upload_video
    up_body,          \* the request body handed to videos().insert
    up_sent,          \* the chunks of the file the server has acknowledged
    retry,            \* the local `retry` of upload_video
    up_last,          \* the outcome of the last request.next_chunk() call
    up_sleeps,        \* the arguments of the time.sleep calls, in order
    up_ret,           \* what upload_video returned
    \* ---- Speech-synthesis dispatcher (src/src/modules/tts.py) ----
    tts_in,           \* the configuration, the provider's behaviour and the script
    tts_pc,           \* new | ready | done
    client,           \* TextToSpeech.client
    tts_out,          \* what generate_audio returned (or raised)
    \* ---- Topic classifier (src/src/modules/classify.py) ----
    cls_post,         \* the post handed to the classifier
    cls_pc,           \* idle | called | returned
    cls_out,          \* what classify / analyze_post_suitability returned
    \* ---- Production runners (src/production_*.py) ----
    rn_in,            \* which script is started, the operator's answer, the environment
    rn_pc,            \* start | prompt | running | exited
    rn_log,           \* what the process did, in order
    exit_status,      \* the exit status of the process (-1 while it runs)
    \* ---- JSON repair utility (src/src/utils/json_fixer.py) ----
    jf_text,          \* the argument of parse_with_fixes, as a sequence of tokens
    jf_pc,            \* position of parse_with_fixes
    fixed_text,       \* the local `fixed_text`
    attempt,          \* the loop variable `attempt`
    jf_out,           \* what parse_with_fixes returned
    \* ---- Script generator (src/src/modules/script_gen.py) ----
    sg_in,            \* the environment, the post, the topic and the LLM's response
    sg_pc,            \* new | ready | returned
    sg_self,          \* ScriptGenerator.dry_run and .client
    sg_out,           \* the script generate_script returned
    \* ---- Synchronous gateway, post cache (src/app_enhanced.py) ----
    rc_now,           \* datetime.now() in whole seconds
    cached_posts,     \* the module-level dict cached_posts
    cache_timestamps, \* the module-level dict cache_timestamps
    rc_out,           \* the last get_reddit_posts call and what it returned
    \* ---- Text splitter (src/src/modules/tts.py) ----
    sp_text,          \* the argument `text`, as a sequence of characters
    sp_max,           \* the argument `max_chars`
    sp_pc,            \* called | returned
    sp_chunks,        \* the list split_text_for_api returned
    \* ---- Concurrent Fixed assembly (src/src/modules/assemble_fixed.py) ----
    fa_jobs,          \* per job: position of assemble_video and what it read
    fa_dirs,          \* per directory path: whether it exists and its files
    \* ---- POST /api/upload-youtube (src/app_enhanced.py) ----
    upload_progress,  \* the dictionary upload_progress: job id -> record
    yt_pc,            \* position of the request being handled
    yt_req,           \* the request being handled and what it will find
    yt_http           \* the HTTP status of the last response

pipeVars == <<dry_run, upload_enabled, existing_script, pc, step_idx, state,
              raised, log, state_file>>
gwVars   == <<clock, job_status, job_threads, threads, out_dir, poll>>
ddVars   == <<enabled, today, cache, cache_file, last>>
ingVars  == <<ing_dry_run, posts, best, processed, fetched>>
asmVars  == <<asm_in, asm_out>>
upVars   == <<up_in, up_pc, up_body, up_sent, retry, up_last, up_sleeps, up_ret>>
ttsVars  == <<tts_in, tts_pc, client, tts_out>>
clsVars  == <<cls_post, cls_pc, cls_out>>
rnVars   == <<rn_in, rn_pc, rn_log, exit_status>>
jfVars   == <<jf_text, jf_pc, fixed_text, attempt, jf_out>>
sgVars   == <<sg_in, sg_pc, sg_self, sg_out>>
rcVars   == <<rc_now, cached_posts, cache_timestamps, rc_out>>
midVars  == <<upVars, ttsVars, clsVars, rnVars, jfVars, sgVars>>
spVars   == <<sp_text, sp_max, sp_pc, sp_chunks>>
faVars   == <<fa_jobs, fa_dirs>>
ytVars   == <<upload_progress, yt_pc, yt_req, yt_http>>
extVars  == <<rcVars, spVars, faVars, ytVars>>
auxVars  == <<midVars, extVars>>
vars     == <<pipeVars, gwVars, ddVars, ingVars, asmVars, auxVars>>
notPipe  == <<gwVars, ddVars, ingVars, asmVars, auxVars>>
notGw    == <<pipeVars, ddVars, ingVars, asmVars, auxVars>>
notDd    == <<pipeVars, gwVars, asmVars, auxVars>>
notAsm   == <<pipeVars, gwVars, ddVars, ingVars, auxVars>>
coreVars == <<pipeVars, gwVars, ddVars, ingVars, asmVars>>
notUp    == <<coreVars, ttsVars, clsVars, rnVars, jfVars, sgVars, extVars>>
notTts   == <<coreVars, upVars, clsVars, rnVars, jfVars, sgVars, extVars>>
notCls   == <<coreVars, upVars, ttsVars, rnVars, jfVars, sgVars, extVars>>
notRn    == <<coreVars, upVars, ttsVars, clsVars, jfVars, sgVars, extVars>>
notJf    == <<coreVars, upVars, ttsVars, clsVars, rnVars, sgVars, extVars>>
notSg    == <<coreVars, upVars, ttsVars, clsVars, rnVars, jfVars, extVars>>
notRc    == <<coreVars, midVars, spVars, faVars, ytVars>>
notSp    == <<coreVars, midVars, rcVars, faVars, ytVars>>
notFa    == <<coreVars, midVars, rcVars, spVars, ytVars>>
notYt    == <<coreVars, midVars, rcVars, spVars, faVars>>

Max(a, b) == IF a >= b THEN a ELSE b
Min(a, b) == IF a <= b THEN a ELSE b
EmptyMap == [x \in {} |-> x]
\* d[k] = v on a dict.
Put(d, k, v) == [x \in DOMAIN d \cup {k} |-> IF x = k THEN v ELSE d[x]]

(***************************************************************************)
(* Idle values: a subsystem that a specification does not run.             *)
(***************************************************************************)
\* No exception in flight.
NoExc == [step |-> "", text |-> ""]

PipeIdle ==
    /\ dry_run = TRUE /\ upload_enabled = FALSE /\ existing_script = "none"
    /\ pc = "idle" /\ step_idx = 0
    /\ state = [status |-> "pending", current_step |-> "None",
                artifacts |-> EmptyMap, errors |-> <<>>,
                started_at |-> "None", completed_at |-> "None"]
    /\ raised = NoExc /\ log = <<>> /\ state_file = <<>>

\* No status request answered yet.
NoPoll == [job |-> <<>>, status |-> "", video_file |-> "", error |-> "",
           subs |-> 0, exited |-> FALSE, run |-> ""]

GwIdle ==
    /\ clock = 0 /\ job_status = EmptyMap /\ job_threads = EmptyMap
    /\ threads = <<>> /\ out_dir = EmptyMap /\ poll = NoPoll

\* The cache file when it does not exist.
NoFile == [exists |-> FALSE, valid |-> TRUE, data |-> EmptyMap]

\* No DeduplicationManager call made yet.
NoCall == [op |-> "none", m |-> "", id |-> 0, result |-> FALSE, n |-> 0,
           day |-> 0, before |-> EmptyMap, after |-> EmptyMap, wrote |-> FALSE,
           calls |-> EmptyMap]

DdIdle ==
    /\ enabled = FALSE /\ today = 0 /\ cache = EmptyMap
    /\ cache_file = NoFile /\ last = NoCall

\* get_best_post has returned nothing (None).
NoPost == [id |-> "", url |-> <<>>, quality |-> 0]

IngIdle ==
    /\ ing_dry_run = FALSE /\ posts = <<>> /\ best = NoPost
    /\ processed = EmptyMap /\ fetched = [day |-> 0, processed |-> EmptyMap]

\* No assembly call made: no inputs, nothing returned yet.
NoAsmIn == [strategy |-> "none", dry_run |-> FALSE, D |-> 0, clips |-> <<>>,
            thumbnail |-> FALSE, title |-> FALSE, intro |-> 0, outro |-> 0,
            fail |-> {}]
Pending == [kind |-> "pending", duration |-> 0]

AsmIdle == asm_in = NoAsmIn /\ asm_out = Pending

CoreIdle == PipeIdle /\ GwIdle /\ DdIdle /\ IngIdle /\ AsmIdle

\* No upload_video call made: no arguments, no request body, no outcome.
NoUpIn == [authenticated |-> FALSE, exists |-> FALSE, title |-> <<>>,
           description |-> <<>>, privacy_status |-> "", chunks |-> 0]
NoBody == [title |-> <<>>, description |-> <<>>, privacyStatus |-> ""]
NoChunk == [kind |-> "none", status |-> 0]

UpIdle ==
    /\ up_in = NoUpIn /\ up_pc = "idle" /\ up_body = NoBody /\ up_sent = 0
    /\ retry = 0 /\ up_last = NoChunk /\ up_sleeps = <<>> /\ up_ret = "pending"

\* No TextToSpeech built and no generate_audio call made.
NoTtsIn == [dry_run |-> TRUE, tts_enabled |-> FALSE, provider |-> "",
            api_key |-> FALSE, connection |-> "", words |-> 0, synthesis |-> 0]
NoAudio == [kind |-> "pending", duration |-> 0, provider_failed |-> FALSE]

TtsIdle ==
    /\ tts_in = NoTtsIn /\ tts_pc = "idle" /\ client = "None" /\ tts_out = NoAudio

\* A post with no text at all, and no classifier call made.
NoHits == [title |-> 0, other |-> 0, unique |-> 0]
NoClsPost == [hits |-> <<NoHits, NoHits>>, subreddit |-> <<>>,
              title_length |-> 0, selftext_length |-> 0, url |-> "none",
              banned |-> 0, sensitive |-> 0, score |-> 0, upvote_ratio |-> 100]
NoClsOut == [op |-> "none", topic |-> "", confidence |-> 0, method |-> "",
             is_suitable |-> FALSE, score |-> 0, issues |-> <<>>,
             warnings |-> <<>>, recommendation |-> "",
             requires_disclaimer |-> FALSE]

ClsIdle == cls_post = NoClsPost /\ cls_pc = "idle" /\ cls_out = NoClsOut

\* No production runner started.
NoRnIn == [runner |-> "", answer |-> <<>>, keys |-> FALSE, outcome |-> ""]

RnIdle == rn_in = NoRnIn /\ rn_pc = "idle" /\ rn_log = <<>> /\ exit_status = -1

\* A JSON value: a string, an array of values or an object (its items are
\* [key, val] pairs in insertion order); Null stands for None.
Null == [t |-> "null", v |-> "", items |-> <<>>]
NoParse == [kind |-> "pending", value |-> Null, via |-> ""]

JfIdle ==
    /\ jf_text = <<>> /\ jf_pc = "idle" /\ fixed_text = <<>> /\ attempt = 0
    /\ jf_out = NoParse

\* A script dictionary: the top-level keys it has, its version and title,
\* and the keys of its narration.  NoScript: nothing returned yet.
NoScript == [keys |-> {}, version |-> "", title |-> <<>>, narration |-> {}]
\* The LLM is not asked.
NoResponse == [kind |-> "none", script |-> NoScript]
NoSgIn == [dry_run |-> TRUE, api_key |-> FALSE, topic_id |-> "",
           title |-> <<>>, response |-> NoResponse]

SgIdle ==
    /\ sg_in = NoSgIn /\ sg_pc = "idle"
    /\ sg_self = [dry_run |-> TRUE, client |-> "None"] /\ sg_out = NoScript

MidIdle == UpIdle /\ TtsIdle /\ ClsIdle /\ RnIdle /\ JfIdle /\ SgIdle

\* get_reddit_posts not called yet.
NoRcOut == [key |-> "", had_entry |-> FALSE, age |-> 0, from_cache |-> FALSE,
            fetched |-> FALSE, posts |-> <<>>]

RcIdle ==
    /\ rc_now = 0 /\ cached_posts = EmptyMap /\ cache_timestamps = EmptyMap
    /\ rc_out = NoRcOut

SpIdle == sp_text = <<>> /\ sp_max = 0 /\ sp_pc = "idle" /\ sp_chunks = <<>>

FaIdle == fa_jobs = EmptyMap /\ fa_dirs = EmptyMap

NoYtReq == [job |-> "", video |-> FALSE, script |-> "missing", credentials |-> FALSE,
            authenticate |-> "false", upload |-> "none"]

YtIdle == upload_progress = EmptyMap /\ yt_pc = "idle" /\ yt_req = NoYtReq /\ yt_http = 0

ExtIdle == RcIdle /\ SpIdle /\ FaIdle /\ YtIdle

AuxIdle == MidIdle /\ ExtIdle

(***************************************************************************)
(*                     PIPELINE  (src/src/pipeline.py)                     *)
(***************************************************************************)

\* The 7 fixed steps of run(), in the order of lines 96-114, and the gated 8th.
Steps == <<"reddit_ingest", "classification", "script_generation", "tts",
           "media_selection", "thumbnail_generation", "video_assembly">>
UploadStep == "youtube_upload"
NumSteps == 7

\* A variant of StepAt with the 4th and 5th steps exchanged.
SwappedStepAt(i) ==
    IF i = 4 THEN "media_selection"
    ELSE IF i = 5 THEN "tts"
    ELSE IF i <= NumSteps THEN Steps[i] ELSE UploadStep

\* The name run() passes to _run_step for its i-th call.
StepAt(i) == IF i <= NumSteps THEN Steps[i] ELSE UploadStep

\* A variant of UploadGate that does not look at dry_run.
UploadGateFlagOnly == upload_enabled

\* The gate of the 8th step (line 117).
UploadGate == ~dry_run /\ upload_enabled

\* Whether the step function can raise.  reddit_ingest raises ValueError when
\* the live fetch yields nothing (the dry run returns the two built-in posts,
\* the first of which has a title longer than 30 characters); script
\* generation raises when an operator script found in the job directory does
\* not parse (json.load); the live speech and stock-media services can fail.
\* Classification and thumbnail generation use no service; the assemblers
\* catch every exception and return a placeholder; the upload step is a stub.
MayRaise(step) ==
    \/ step = "reddit_ingest" /\ ~dry_run
    \/ step = "script_generation" /\ existing_script = "malformed"
    \/ step = "tts" /\ ~dry_run
    \/ step = "media_selection" /\ ~dry_run

\* Whether the step function can return normally.
MaySucceed(step) ==
    ~(step = "script_generation" /\ existing_script = "malformed")

\* The text of the exception a step raises (str(e)).
ErrText(step) ==
    IF step = "reddit_ingest" THEN "No suitable Reddit posts found"
    ELSE IF step = "script_generation" THEN "JSONDecodeError"
    ELSE IF step = "tts" THEN "tts service error"
    ELSE "media service error"

\* The values a step function can return.
StepResults(step) ==
    IF step = "video_assembly"
    THEN IF dry_run THEN {[step |-> step, kind |-> "mock"]}
         ELSE {[step |-> step, kind |-> "video"],
               [step |-> step, kind |-> "placeholder"]}
    ELSE IF step = UploadStep THEN {[step |-> step, kind |-> "skipped"]}
    ELSE {[step |-> step, kind |-> "ok"]}

PipeInit ==
    /\ dry_run \in BOOLEAN
    /\ upload_enabled \in BOOLEAN
    /\ existing_script \in {"none", "valid", "malformed"}
    /\ pc = "ready" /\ step_idx = 0
    /\ state = [status |-> "pending", current_step |-> "None",
                artifacts |-> EmptyMap, errors |-> <<>>,
                started_at |-> "None", completed_at |-> "None"]
    /\ raised = NoExc /\ log = <<>> /\ state_file = <<>>

\* run(), lines 88-92: the start timestamp.
Run_Start ==
    /\ pc = "ready"
    /\ state' = [state EXCEPT !.started_at = "set"]
    /\ step_idx' = 1
    /\ pc' = "next"
    /\ UNCHANGED <<dry_run, upload_enabled, existing_script, raised, log, state_file, notPipe>>

\* _run_step, lines 153-154: the step is named current and logged as started.
RunStep_Begin ==
    /\ pc = "next"
    /\ \/ step_idx <= NumSteps
       \/ step_idx = NumSteps + 1 /\ UploadGate
    /\ state' = [state EXCEPT !.current_step = StepAt(step_idx)]
    /\ log' = Append(log, StepAt(step_idx))
    /\ pc' = "in_step"
    /\ UNCHANGED <<dry_run, upload_enabled, existing_script, step_idx, raised, state_file, notPipe>>

\* _run_step, lines 157-159: the step function returned; its result is recorded.
RunStep_Ok ==
    /\ pc = "in_step"
    /\ MaySucceed(state.current_step)
    /\ \E r \in StepResults(state.current_step) :
         state' = [state EXCEPT !.artifacts = @ @@ (state.current_step :> r)]
    /\ step_idx' = step_idx + 1
    /\ pc' = "next"
    /\ UNCHANGED <<dry_run, upload_enabled, existing_script, raised, log, state_file, notPipe>>

\* A variant of RunStep_Raise in which run() carries on with the next step.
RunStep_Swallow ==
    /\ pc = "in_step"
    /\ MayRaise(state.current_step)
    /\ raised' = [step |-> state.current_step, text |-> ErrText(state.current_step)]
    /\ step_idx' = step_idx + 1
    /\ pc' = "next"
    /\ UNCHANGED <<dry_run, upload_enabled, existing_script, state, log, state_file, notPipe>>

\* _run_step, lines 160-162: the step function raised; logged and re-raised.
RunStep_Raise ==
    /\ pc = "in_step"
    /\ MayRaise(state.current_step)
    /\ raised' = [step |-> state.current_step, text |-> ErrText(state.current_step)]
    /\ pc' = "except"
    /\ UNCHANGED <<dry_run, upload_enabled, existing_script, step_idx, state, log, state_file, notPipe>>

\* run(), lines 124-129: the except clause.
Run_Except ==
    /\ pc = "except"
    /\ state' = [state EXCEPT !.status = "failed",
                              !.errors = Append(@, raised.text)]
    /\ pc' = "finally"
    /\ UNCHANGED <<dry_run, upload_enabled, existing_script, step_idx, raised, log, state_file, notPipe>>

\* A variant of Run_Complete that does not wait for the 7th step.
Run_CompleteEarly ==
    /\ pc = "next"
    /\ step_idx >= NumSteps
    /\ state' = [state EXCEPT !.status = "completed"]
    /\ pc' = "finally"
    /\ UNCHANGED <<dry_run, upload_enabled, existing_script, step_idx, raised, log, state_file, notPipe>>

\* run(), lines 117-122: every step has run (the 8th only behind its gate).
Run_Complete ==
    /\ pc = "next"
    /\ \/ step_idx = NumSteps + 1 /\ ~UploadGate
       \/ step_idx = NumSteps + 2
    /\ state' = [state EXCEPT !.status = "completed"]
    /\ pc' = "finally"
    /\ UNCHANGED <<dry_run, upload_enabled, existing_script, step_idx, raised, log, state_file, notPipe>>

\* A variant of Run_Finally that saves the state before stamping it.
Run_FinallySaveFirst ==
    /\ pc = "finally"
    /\ state' = [state EXCEPT !.completed_at = "set"]
    /\ state_file' = Append(state_file, state)
    /\ pc' = "returned"
    /\ UNCHANGED <<dry_run, upload_enabled, existing_script, step_idx, raised, log, notPipe>>

\* run(), lines 131-144: the finally clause stamps and saves the state, and
\* run() returns it.
Run_Finally ==
    /\ pc = "finally"
    /\ state' = [state EXCEPT !.completed_at = "set"]
    /\ state_file' = Append(state_file, state')
    /\ pc' = "returned"
    /\ UNCHANGED <<dry_run, upload_enabled, existing_script, step_idx, raised, log, notPipe>>

PipeNext ==
    \/ Run_Start
    \/ RunStep_Begin
    \/ RunStep_Ok
    \/ RunStep_Raise
    \/ Run_Except
    \/ Run_Complete
    \/ Run_Finally

InitPipeline == PipeInit /\ GwIdle /\ DdIdle /\ IngIdle /\ AsmIdle /\ AuxIdle

SpecPipeline == InitPipeline /\ [][PipeNext]_vars

(***************************************************************************)
(*                       CLAIMS ABOUT THE PIPELINE                         *)
(***************************************************************************)

\* The steps that completed before the step named s, in the order of run().
StepsBefore(s) ==
    LET k == CHOOSE i \in 1..(NumSteps + 1) :
                 (IF i <= NumSteps THEN Steps[i] ELSE UploadStep) = s
    IN  {Steps[i] : i \in 1..(k - 1)}

C2_StepFailure ==
    raised.step # "" =>
      /\ log[Len(log)] = raised.step
      /\ pc = "returned" =>
           /\ state.status = "failed"
           /\ state.current_step = raised.step
           /\ \E i \in 1..Len(state.errors) : state.errors[i] = raised.text
           /\ DOMAIN state.artifacts = StepsBefore(raised.step)
           /\ \A s \in DOMAIN state.artifacts : state.artifacts[s].step = s
           /\ state_file[Len(state_file)].status = "failed"

\* C2 witness: the speech step raised after three steps had completed, and
\* run() returned.
C2_Witness ==
    /\ pc = "returned" /\ raised.step # "" /\ raised.step = "tts"
    /\ Cardinality(DOMAIN state.artifacts) = 3

\* C10: a run that returns 'completed' has a result for each of the 7 fixed
\* steps; a dry run over the built-in sample posts with no operator script in
\* the job directory returns 'completed' with all 7 keys.
C10_CompletedHasAllSteps ==
    pc = "returned" =>
      /\ state.status = "completed" =>
           \A i \in 1..NumSteps : Steps[i] \in DOMAIN state.artifacts
      /\ (dry_run /\ existing_script = "none") =>
           /\ state.status = "completed"
           /\ \A i \in 1..NumSteps : Steps[i] \in DOMAIN state.artifacts
           /\ UploadStep \notin DOMAIN state.artifacts

\* C10 witness: a dry run with the template script that returned completed.
C10_Witness ==
    /\ pc = "returned" /\ dry_run /\ existing_script = "none"
    /\ state.status = "completed"
    /\ state.artifacts["video_assembly"].kind = "mock"

\* C11: a call of run() that has returned has written pipeline_state.json
\* exactly once, after the last executed step and not before, whether the run
\* completed or a step failed; the state written is the state returned, its
\* status is 'completed' or 'failed' and its completed_at is set.
C11_StateSavedOnce ==
    /\ pc # "returned" => state_file = <<>>
    /\ pc = "returned" =>
         /\ Len(state_file) = 1
         /\ state_file[1] = state
         /\ state_file[1].status \in {"completed", "failed"}
         /\ state_file[1].completed_at # "None"
         /\ state_file[1].current_step = log[Len(log)]

\* C11 witness: a run in which the media step raised has returned and saved
\* its state.
C11_Witness ==
    /\ pc = "returned" /\ raised.step = "media_selection"
    /\ Len(state_file) = 1 /\ state_file[1].status = "failed"

\* C24: the publish step (youtube_upload) is run, after video_assembly, if
\* and only if the run is not a dry run and the 'upload' feature flag is
\* enabled; otherwise the artifacts never hold a youtube_upload key.
C24_UploadGated ==
    /\ \A i \in 1..Len(log) :
         log[i] = "youtube_upload" =>
           /\ ~dry_run /\ upload_enabled
           /\ i = Len(log) /\ i > 1 /\ log[i - 1] = "video_assembly"
           /\ "video_assembly" \in DOMAIN state.artifacts
    /\ "youtube_upload" \in DOMAIN state.artifacts =>
         /\ ~dry_run /\ upload_enabled
         /\ log[Len(log)] = "youtube_upload"
    /\ (pc \in {"finally", "returned"} /\ state.status = "completed") =>
         (("youtube_upload" \in DOMAIN state.artifacts)
            <=> (~dry_run /\ upload_enabled))

\* C24 witness: a live run with the flag enabled that returned with the
\* result of the publish step recorded after the 7 fixed steps.
C24_Witness ==
    /\ pc = "returned" /\ ~dry_run /\ upload_enabled
    /\ Len(log) = 8 /\ log[7] = "video_assembly" /\ log[8] = "youtube_upload"
    /\ "youtube_upload" \in DOMAIN state.artifacts

\* C28: a run reported 'completed' has a video_assembly result that comes
\* from a successful assembly: when the assembler has exhausted its fallback
\* chain and returned an empty placeholder file with an 'error' in its
\* metadata, run() does not report 'completed'.
C28_PlaceholderNotCompleted ==
    (pc = "returned" /\ "video_assembly" \in DOMAIN state.artifacts
       /\ state.artifacts["video_assembly"].kind = "placeholder") =>
      state.status # "completed"

(***************************************************************************)
(*               ASYNCHRONOUS GATEWAY  (src/app_fixed_async.py)            *)
(***************************************************************************)

MaxJobs == 2      \* submissions accepted
MaxClock == 1     \* seconds the wall clock advances
PostIds == {"p1", "p2"}

\* The job id of process_script (line 120): the post id and the second.
JobId(post, now) == <<post, now>>

\* How one execution of `python src/pipeline.py --job-id <id>` can end:
\* config.validate() raised; the Pipeline constructor raised; run() returned
\* with status completed; run() returned with status failed (a step raised);
\* the process was still running after 900 seconds; it could not be spawned.
MainOutcomes == {"config_error", "init_error", "run_completed", "run_failed",
                 "timeout", "spawn_error"}

\* The timeout of subprocess.run (line 50), in seconds, and the seconds an
\* orchestrator process needs to end when nothing stops it.
SubprocessTimeout == 900
Durations == {899, 901}

\* The exit code of pipeline.py's main(): sys.exit(1) on a configuration
\* error and on an exception that escapes; otherwise main() returns after
\* printing the result of run(), whatever its status.
MainExitCode(outcome) ==
    IF outcome \in {"run_completed", "run_failed"} THEN 0 ELSE 1

\* The job_status records written by run_pipeline_background.  A key the
\* record does not carry is "absent"; a None value is "null".
StatusRunning   == [status |-> "running", video_file |-> "absent", error |-> "absent"]
StatusCompleted(files) ==
    [status |-> "completed",
     video_file |-> IF "video" \in files THEN "path" ELSE "null",
     error |-> "absent"]
StatusFailed    == [status |-> "failed", video_file |-> "absent", error |-> "stderr"]
StatusTimeout   == [status |-> "timeout", video_file |-> "absent",
                    error |-> "Processing took too long"]
StatusError     == [status |-> "error", video_file |-> "absent", error |-> "str(e)"]

\* The files of a job directory.
FilesOf(job) == IF job \in DOMAIN out_dir THEN out_dir[job] ELSE {}

\* Thread.is_alive().
IsAlive(t) == threads[t].pc # "done"

GwInit ==
    /\ clock = 0 /\ job_status = EmptyMap /\ job_threads = EmptyMap
    /\ threads = <<>> /\ out_dir = EmptyMap /\ poll = NoPoll

\* POST /process (lines 112-139).
Process(post) ==
    /\ Len(threads) < MaxJobs
    /\ LET job_id == JobId(post, clock) IN
         /\ out_dir' = Put(out_dir, job_id, FilesOf(job_id))
         /\ threads' = Append(threads, [job |-> job_id, pc |-> "started",
                                     run |-> "none", secs |-> 0])
         /\ job_threads' = Put(job_threads, job_id, Len(threads) + 1)
    /\ UNCHANGED <<clock, job_status, poll, notGw>>

\* run_pipeline_background, lines 26-30.
T_SetRunning(t) ==
    /\ threads[t].pc = "started"
    /\ job_status' = Put(job_status, threads[t].job, StatusRunning)
    /\ threads' = [threads EXCEPT ![t].pc = "save"]
    /\ UNCHANGED <<clock, job_threads, out_dir, poll, notGw>>

\* Lines 32-40: the script and the post are written to the job directory.
T_SaveFiles(t) ==
    /\ threads[t].pc = "save"
    /\ out_dir' = Put(out_dir, threads[t].job, FilesOf(threads[t].job) \cup {"script", "post"})
    /\ threads' = [threads EXCEPT ![t].pc = "spawn"]
    /\ UNCHANGED <<clock, job_status, job_threads, poll, notGw>>

\* Lines 32-40 raise (the file cannot be written), caught at lines 104-110.
T_SaveRaises(t) ==
    /\ threads[t].pc = "save"
    /\ job_status' = Put(job_status, threads[t].job, StatusError)
    /\ threads' = [threads EXCEPT ![t].pc = "recorded"]
    /\ UNCHANGED <<clock, job_threads, out_dir, poll, notGw>>

\* The files in the job directory after the orchestrator process ended: a
\* completed run leaves a video there, a run that failed or never started
\* adds none.
FilesAfter(job, outcome) ==
    IF outcome = "run_completed" THEN FilesOf(job) \cup {"video"} ELSE FilesOf(job)

\* A variant of TerminalStatus that records a timeout as any other exception.
TerminalStatusTimeoutAsError(job, outcome) ==
    IF outcome \in {"timeout", "spawn_error"} THEN StatusError
    ELSE IF MainExitCode(outcome) = 0
         THEN StatusCompleted(FilesAfter(job, outcome))
         ELSE StatusFailed

\* The record lines 46-110 write for an outcome of the subprocess.
TerminalStatus(job, outcome) ==
    IF outcome = "timeout" THEN StatusTimeout
    ELSE IF outcome = "spawn_error" THEN StatusError
    ELSE IF MainExitCode(outcome) = 0
         THEN StatusCompleted(FilesAfter(job, outcome))
         ELSE StatusFailed

\* Lines 42-110: the subprocess runs to its end, or is killed when it needs
\* more than the timeout (TimeoutExpired), and the terminal record is
\* written; `secs` is the time subprocess.run took.
T_Subprocess(t) ==
    /\ threads[t].pc = "spawn"
    /\ \E outcome \in MainOutcomes, needs \in Durations :
         /\ (outcome = "timeout") <=> (needs > SubprocessTimeout)
         /\ out_dir' = Put(out_dir, threads[t].job, FilesAfter(threads[t].job, outcome))
         /\ job_status' = Put(job_status, threads[t].job,
                              TerminalStatus(threads[t].job, outcome))
         /\ threads' = [threads EXCEPT ![t].pc = "recorded", ![t].run = outcome,
                                       ![t].secs = Min(needs, SubprocessTimeout)]
    /\ UNCHANGED <<clock, job_threads, poll, notGw>>

\* run_pipeline_background returns; the thread is no longer alive.
T_Exit(t) ==
    /\ threads[t].pc = "recorded"
    /\ threads' = [threads EXCEPT ![t].pc = "done"]
    /\ UNCHANGED <<clock, job_status, job_threads, out_dir, poll, notGw>>

\* The threads started for a job id.
ThreadsOf(job) == {t \in 1..Len(threads) : threads[t].job = job}

\* The body of the response of check_status (lines 141-156).
StatusResponse(job_id) ==
    IF job_id \notin DOMAIN job_status
    THEN IF job_id \in DOMAIN job_threads /\ IsAlive(job_threads[job_id])
         THEN [status |-> "running", video_file |-> "absent", error |-> "absent"]
         ELSE [status |-> "not_found", video_file |-> "absent", error |-> "Job not found"]
    ELSE job_status[job_id]

\* GET /status/<job_id> for a job id a submission response has carried.  The
\* response is kept with what was true of the job when it was given: how many
\* submissions got this id, whether all its threads had exited, and how the
\* orchestrator run of its registered thread ended.
Status(job_id) ==
    /\ job_id \in DOMAIN job_threads
    /\ LET r == StatusResponse(job_id) IN
         poll' = [job |-> job_id, status |-> r.status,
                  video_file |-> r.video_file, error |-> r.error,
                  subs |-> Cardinality(ThreadsOf(job_id)),
                  exited |-> \A t \in ThreadsOf(job_id) : ~IsAlive(t),
                  run |-> threads[job_threads[job_id]].run]
    /\ UNCHANGED <<clock, job_status, job_threads, threads, out_dir, notGw>>

\* GET /status/<job_id> for an id no submission was given.
StatusUnknown ==
    /\ poll' = [job |-> <<"unknown", 0>>, status |-> "not_found",
                video_file |-> "absent", error |-> "Job not found",
                subs |-> 0, exited |-> FALSE, run |-> "none"]
    /\ UNCHANGED <<clock, job_status, job_threads, threads, out_dir, notGw>>

\* A second passes on the wall clock.
GwTick ==
    /\ clock < MaxClock
    /\ clock' = clock + 1
    /\ UNCHANGED <<job_status, job_threads, threads, out_dir, poll, notGw>>

GwProcess == \E post \in PostIds : Process(post)
GwSetRunning == \E t \in 1..Len(threads) : T_SetRunning(t)
GwSaveFiles == \E t \in 1..Len(threads) : T_SaveFiles(t)
GwSaveRaises == \E t \in 1..Len(threads) : T_SaveRaises(t)
GwSubprocess == \E t \in 1..Len(threads) : T_Subprocess(t)
GwExit == \E t \in 1..Len(threads) : T_Exit(t)
GwStatus == \E job_id \in DOMAIN job_threads : Status(job_id)

GwNext ==
    \/ GwProcess \/ GwSetRunning \/ GwSaveFiles \/ GwSaveRaises
    \/ GwSubprocess \/ GwExit \/ GwStatus \/ StatusUnknown \/ GwTick

InitGateway == GwInit /\ PipeIdle /\ DdIdle /\ IngIdle /\ AsmIdle /\ AuxIdle

SpecGateway == InitGateway /\ [][GwNext]_vars

\* The background execution alone: submissions and their threads, no polls.
GwBackgroundNext ==
    \/ GwProcess \/ GwSetRunning \/ GwSaveFiles \/ GwSaveRaises
    \/ GwSubprocess \/ GwExit \/ GwTick

SpecBackground == InitGateway /\ [][GwBackgroundNext]_vars

(***************************************************************************)
(*                        CLAIMS ABOUT THE GATEWAY                         *)
(***************************************************************************)

\* C3: when the orchestrator run of a job ended with status 'failed' (a step
\* raised), a poll made after the background thread has finished reports a
\* failure status (failed, timeout or error) with an error message, and never
\* 'completed'.  Stated for job ids given to one submission only.
C3_FailedRunReported ==
    (poll.subs = 1 /\ poll.exited /\ poll.run = "run_failed") =>
       /\ poll.status \in {"failed", "timeout", "error"}
       /\ poll.error \notin {"absent", "null"}
       /\ poll.status # "completed"

\* C4: a poll for an accepted job returns 'running' until a terminal status
\* is recorded; once the background thread has exited every poll returns a
\* terminal status, with video_file populated when it is 'completed' and an
\* error message otherwise; no poll returns 'running' or 'not_found' after
\* the thread has exited.  Stated for job ids given to one submission only.
C4_PollContract ==
    poll.subs = 1 =>
       /\ poll.status \in {"running", "completed", "failed", "timeout", "error"}
       /\ poll.exited =>
            /\ poll.status \in {"completed", "failed", "timeout", "error"}
            /\ poll.status = "completed" => poll.video_file = "path"
            /\ poll.status # "completed" => poll.error \notin {"absent", "null"}

\* C23: the background execution of a job is bounded by 15 minutes: the
\* orchestrator subprocess is waited for at most 900 seconds, and when it
\* has not finished by then the terminal status recorded for the job is
\* 'timeout' (not 'failed', 'error' or 'completed'), so the job does not
\* stay 'running'.  Stated for job ids given to one submission only.
C23_TimeoutBound ==
    \A t \in 1..Len(threads) :
        (threads[t].pc \in {"recorded", "done"}
           /\ Cardinality(ThreadsOf(threads[t].job)) = 1) =>
          /\ threads[t].secs <= 900
          /\ threads[t].run = "timeout" =>
                /\ threads[t].secs = 900
                /\ job_status[threads[t].job].status = "timeout"
          /\ job_status[threads[t].job].status = "timeout" =>
                threads[t].run = "timeout"
          /\ job_status[threads[t].job].status # "running"

C23_Witness ==
    \E t \in 1..Len(threads) :
        /\ threads[t].pc = "done" /\ threads[t].run = "timeout"
        /\ threads[t].secs = 900
        /\ Cardinality(ThreadsOf(threads[t].job)) = 1
        /\ job_status[threads[t].job] = StatusTimeout

\* C27: every job id has at most one background thread: no two accepted
\* POST /process submissions receive the same job id, so the status a
\* finished thread recorded is never replaced by another submission's
\* 'running'.
C27_OneThreadPerJobId ==
    /\ \A t1, t2 \in 1..Len(threads) :
          t1 # t2 => threads[t1].job # threads[t2].job
    /\ \A t \in 1..Len(threads) :
          threads[t].pc \in {"recorded", "done"} =>
             job_status[threads[t].job].status # "running"

(***************************************************************************)
(*              DEDUPLICATION CACHE  (src/src/utils/dedup.py)              *)
(***************************************************************************)

CacheDays == 7       \* cache_days, the retention window in days
PurgeEvery == 100    \* the modulus of the opportunistic purge in is_duplicate
MaxDay == 8          \* days the wall clock advances
MaxCalls == 2        \* is_duplicate calls counted per manager instance

Managers == {"m1"}
\* The ids the calls are made with, and the ids of a cache file that already
\* holds PurgeEvery - 1 entries (all added on day 0).
ItemIds == {1}
FillerIds == (PurgeEvery + 1)..(2 * PurgeEvery - 1)

\* A cache dict maps an id to the day of its timestamp.
WriteFile(d) == [exists |-> TRUE, valid |-> TRUE, data |-> d]

\* A variant of Expired that drops entries two days before the window ends.
ExpiredEarly(d, now) == {k \in DOMAIN d : d[k] < now - CacheDays + 2}

\* The keys _clean_expired collects: data['timestamp'] < cutoff_timestamp.
Expired(d, now) == {k \in DOMAIN d : d[k] < now - CacheDays}

\* _clean_expired (lines 63-82) on an enabled manager: the cache without its
\* expired keys, and the file, rewritten if a key was removed.
CleanExpired(d, f, now) ==
    LET kept == [k \in DOMAIN d \ Expired(d, now) |-> d[k]]
    IN  [cache |-> kept,
         file |-> IF Expired(d, now) # {} THEN WriteFile(kept) ELSE f]

\* _load_cache (lines 35-50): the cache of a new instance and the file.
LoadCache(f, now) ==
    IF ~enabled THEN [cache |-> EmptyMap, file |-> f]
    ELSE IF f.exists /\ f.valid THEN CleanExpired(f.data, f, now)
    ELSE [cache |-> EmptyMap, file |-> f]

\* The cache files the program can find at start: none, one that does not
\* parse, one holding PurgeEvery - 1 entries.
InitialFiles ==
    {NoFile,
     [exists |-> TRUE, valid |-> FALSE, data |-> EmptyMap],
     WriteFile([k \in FillerIds |-> 0])}

DdInit ==
    /\ enabled \in BOOLEAN
    /\ today = 0
    /\ cache_file \in InitialFiles
    /\ cache = [m \in Managers |-> LoadCache(cache_file, 0).cache]
    /\ last = [NoCall EXCEPT !.calls = [m \in Managers |-> 0]]

\* DeduplicationManager(...) (lines 13-33): a new instance replaces m.
Construct(m) ==
    /\ LET r == LoadCache(cache_file, today) IN
         /\ cache' = [cache EXCEPT ![m] = r.cache]
         /\ cache_file' = r.file
         /\ last' = [op |-> "load", m |-> m, id |-> 0, result |-> FALSE, n |-> 0,
                     day |-> today,
                     before |-> IF cache_file.exists /\ cache_file.valid
                                THEN cache_file.data ELSE EmptyMap,
                     after |-> r.cache,
                     wrote |-> r.file # cache_file /\ r.file = WriteFile(r.cache),
                     calls |-> [last.calls EXCEPT ![m] = 0]]
    /\ UNCHANGED <<enabled, today, notDd, ingVars>>

\* is_duplicate, line 97: whether this call runs the purge.
PurgeDue(d) == Cardinality(DOMAIN d) % PurgeEvery = 0

\* is_duplicate (lines 84-100).  The call is recorded with its number among
\* the is_duplicate calls of the instance, the cache before and after it.
IsDuplicate(m, item_id) ==
    /\ last.calls[m] < MaxCalls
    /\ LET r == IF enabled /\ PurgeDue(cache[m])
                THEN CleanExpired(cache[m], cache_file, today)
                ELSE [cache |-> cache[m], file |-> cache_file]
       IN
         /\ cache' = [cache EXCEPT ![m] = r.cache]
         /\ cache_file' = r.file
         /\ last' = [op |-> "is_duplicate", m |-> m, id |-> item_id,
                     result |-> enabled /\ item_id \in DOMAIN r.cache,
                     n |-> last.calls[m] + 1, day |-> today,
                     before |-> cache[m], after |-> r.cache,
                     wrote |-> r.file # cache_file /\ r.file = WriteFile(r.cache),
                     calls |-> [last.calls EXCEPT ![m] = @ + 1]]
    /\ UNCHANGED <<enabled, today, notDd, ingVars>>

\* A variant of AddItem that adds the entry to what the file holds at the
\* time of the write instead of rewriting the file from the instance's cache.
AddItemToFile(m, item_id) ==
    /\ LET c == IF enabled THEN Put(cache[m], item_id, today) ELSE cache[m]
           held == IF cache_file.exists /\ cache_file.valid
                   THEN cache_file.data ELSE EmptyMap
       IN
         /\ cache' = [cache EXCEPT ![m] = c]
         /\ cache_file' = IF enabled THEN WriteFile(Put(held, item_id, today))
                          ELSE cache_file
         /\ last' = [op |-> "add_item", m |-> m, id |-> item_id, result |-> FALSE,
                     n |-> 0, day |-> today, before |-> cache[m], after |-> c,
                     wrote |-> enabled, calls |-> last.calls]
    /\ UNCHANGED <<enabled, today, notDd, ingVars>>

\* add_item (lines 102-116).
AddItem(m, item_id) ==
    /\ LET c == IF enabled THEN Put(cache[m], item_id, today) ELSE cache[m] IN
         /\ cache' = [cache EXCEPT ![m] = c]
         /\ cache_file' = IF enabled THEN WriteFile(c) ELSE cache_file
         /\ last' = [op |-> "add_item", m |-> m, id |-> item_id, result |-> FALSE,
                     n |-> 0, day |-> today, before |-> cache[m], after |-> c,
                     wrote |-> enabled, calls |-> last.calls]
    /\ UNCHANGED <<enabled, today, notDd, ingVars>>

\* remove_item (lines 118-129).
RemoveItem(m, item_id) ==
    /\ LET hit == enabled /\ item_id \in DOMAIN cache[m]
           c == IF hit THEN [k \in DOMAIN cache[m] \ {item_id} |-> cache[m][k]]
                ELSE cache[m]
       IN
         /\ cache' = [cache EXCEPT ![m] = c]
         /\ cache_file' = IF hit THEN WriteFile(c) ELSE cache_file
         /\ last' = [op |-> "remove_item", m |-> m, id |-> item_id, result |-> FALSE,
                     n |-> 0, day |-> today, before |-> cache[m], after |-> c,
                     wrote |-> hit, calls |-> last.calls]
    /\ UNCHANGED <<enabled, today, notDd, ingVars>>

\* clear (lines 131-134): the cache is emptied whether or not the feature is
\* enabled; _save_cache writes only when it is.
Clear(m) ==
    /\ cache' = [cache EXCEPT ![m] = EmptyMap]
    /\ cache_file' = IF enabled THEN WriteFile(EmptyMap) ELSE cache_file
    /\ last' = [op |-> "clear", m |-> m, id |-> 0, result |-> FALSE,
                n |-> 0, day |-> today, before |-> cache[m], after |-> EmptyMap,
                wrote |-> enabled, calls |-> last.calls]
    /\ UNCHANGED <<enabled, today, notDd, ingVars>>

\* A day passes.
DdTick ==
    /\ today < MaxDay
    /\ today' = today + 1
    /\ UNCHANGED <<enabled, cache, cache_file, last, notDd, ingVars>>

DdConstruct == \E m \in Managers : Construct(m)
DdIsDuplicate == \E m \in Managers, item_id \in ItemIds : IsDuplicate(m, item_id)
DdAddItem == \E m \in Managers, item_id \in ItemIds : AddItem(m, item_id)
DdRemoveItem == \E m \in Managers, item_id \in ItemIds : RemoveItem(m, item_id)
DdClear == \E m \in Managers : Clear(m)

DdNext ==
    \/ DdConstruct \/ DdIsDuplicate \/ DdAddItem \/ DdRemoveItem \/ DdClear
    \/ DdTick

InitDedup == DdInit /\ PipeIdle /\ GwIdle /\ IngIdle /\ AsmIdle /\ AuxIdle

SpecDedup == InitDedup /\ [][DdNext]_vars

\* Two instances open on the same cache file, as when two jobs run at once:
\* both have loaded the file; their calls interleave call by call.
RaceManagers == {"m1", "m2"}
RaceIds == {1, 2}
RaceFiles == {NoFile, WriteFile([k \in {3} |-> 0])}

RaceInit ==
    /\ enabled \in BOOLEAN
    /\ today = 0
    /\ cache_file \in RaceFiles
    /\ cache = [m \in RaceManagers |-> LoadCache(cache_file, 0).cache]
    /\ last = [NoCall EXCEPT !.calls = [m \in RaceManagers |-> 0]]

RaceConstruct == \E m \in RaceManagers : Construct(m)
RaceIsDuplicate == \E m \in RaceManagers, item_id \in RaceIds : IsDuplicate(m, item_id)
RaceAddItem == \E m \in RaceManagers, item_id \in RaceIds : AddItem(m, item_id)
RaceRemoveItem == \E m \in RaceManagers, item_id \in RaceIds : RemoveItem(m, item_id)

RaceNext == RaceConstruct \/ RaceIsDuplicate \/ RaceAddItem \/ RaceRemoveItem

InitDedupRace == RaceInit /\ PipeIdle /\ GwIdle /\ IngIdle /\ AsmIdle /\ AuxIdle

SpecDedupRace == InitDedupRace /\ [][RaceNext]_vars

(***************************************************************************)
(*                  CLAIMS ABOUT THE DEDUPLICATION CACHE                   *)
(***************************************************************************)

\* Whether the last call ran a load/purge cycle: a load of an existing file,
\* or an is_duplicate call that ran the purge.
PurgeCycle ==
    /\ enabled
    /\ \/ last.op = "load"
       \/ last.op = "is_duplicate"
          /\ Cardinality(DOMAIN last.before) % PurgeEvery = 0

\* C8: after a load/purge cycle an entry whose age exceeds the retention
\* window (7 days) is absent and an entry whose age is one day short of the
\* window is still present with its timestamp; a purge that removed at least
\* one entry has rewritten the cache file with the purged cache.
C8_RetentionPurge ==
    PurgeCycle =>
      /\ \A k \in DOMAIN last.before :
           /\ last.day - last.before[k] > CacheDays => k \notin DOMAIN last.after
           /\ last.day - last.before[k] = CacheDays - 1 =>
                k \in DOMAIN last.after /\ last.after[k] = last.before[k]
      /\ DOMAIN last.after # DOMAIN last.before => last.wrote

\* C8 witness: a load on day 8 of a file holding the entries of day 0 and an
\* entry of day 2: the former are gone, the latter is kept, the file is
\* rewritten.
C8_Witness ==
    /\ enabled /\ last.op = "load" /\ last.day = CacheDays + 1
    /\ FillerIds \subseteq DOMAIN last.before
    /\ 1 \in DOMAIN last.before /\ last.before[1] = 2
    /\ DOMAIN last.after = {1}
    /\ last.wrote /\ cache_file = WriteFile(last.after)

\* C9: is_duplicate returns false whenever the feature is disabled; when
\* enabled it returns whether the id is in the cache, and the purge of
\* expired entries runs on every 100th call of is_duplicate of the instance
\* and on no other call (a call that does not purge leaves the cache as it
\* was; a call that purges leaves no expired entry).
C9_PurgeEvery100thCall ==
    last.op = "is_duplicate" =>
      /\ ~enabled => ~last.result /\ last.after = last.before
      /\ enabled =>
           /\ last.result = (last.id \in DOMAIN last.after)
           /\ last.n % PurgeEvery = 0 => Expired(last.after, last.day) = {}
           /\ last.n % PurgeEvery # 0 => last.after = last.before

\* C25: with two instances open on the same cache file and no locking, an
\* add_item rewrites the file from the cache of the instance that makes it:
\* after the call the file holds only the entries known to that instance,
\* so an entry added by the other instance since this one loaded is lost.
C25_LastWriterWins ==
    (enabled /\ last.op = "add_item") => cache_file = WriteFile(cache[last.m])

\* C25 witness: both instances loaded the file, m1 added id 1, then m2 added
\* id 2: the file holds id 2 and no longer id 1.
C25_Witness ==
    /\ enabled /\ last.op = "add_item" /\ last.m = "m2" /\ last.id = 2
    /\ DOMAIN cache = {"m1", "m2"}
    /\ 1 \in DOMAIN cache["m1"] /\ 1 \notin DOMAIN cache["m2"]
    /\ cache_file.exists /\ 2 \in DOMAIN cache_file.data
    /\ 1 \notin DOMAIN cache_file.data

(***************************************************************************)
(*            REDDIT INGESTOR  (src/src/modules/ingest_reddit.py)          *)
(***************************************************************************)

Submissions == {"s1", "s2"}
Limits == {1, 2}

\* Strings are sequences of tokens.  submission.permalink, and the 'url' field
\* _extract_post_data builds from it (line 127).
Permalink(sub) == <<"/r/sub/comments/", sub>>
Url(sub) == <<"https://reddit.com">> \o Permalink(sub)

\* _generate_post_id (lines 141-150): the MD5 digest of the string; distinct
\* strings have distinct digests.
GeneratePostId(str) == <<"md5">> \o str

\* _calculate_post_score of a submission, in tenths.
Quality(sub) == IF sub = "s1" THEN 30 ELSE 50

\* _extract_post_data (lines 114-139).
ExtractPostData(sub) == [id |-> sub, url |-> Url(sub), quality |-> Quality(sub)]

\* _get_test_posts (lines 152-193) with the scores _calculate_post_score
\* gives them.
TestPosts ==
    <<[id |-> "test123",
       url |-> <<"https://reddit.com", "/r/science/comments/", "test123">>,
       quality |-> 55],
      [id |-> "test456",
       url |-> <<"https://reddit.com", "/r/programming/comments/", "test456">>,
       quality |-> 38]>>

\* The submissions of a listing that pass the filters of lines 82-96, in the
\* order of the listing.
Listings ==
    {<<>>} \cup {<<a>> : a \in Submissions}
           \cup {l \in Submissions \X Submissions : l[1] # l[2]}

\* The loop of fetch_trending_posts (lines 81-109) over the rest of the
\* listing: the cache and the file after the is_duplicate calls, and the
\* posts collected.
RECURSIVE FetchLoop(_, _, _, _, _)
FetchLoop(listing, d, f, acc, limit) ==
    IF listing = <<>> \/ Len(acc) >= limit
    THEN [cache |-> d, file |-> f, posts |-> acc]
    ELSE LET post_id == GeneratePostId(Permalink(Head(listing)))
             r == IF enabled /\ PurgeDue(d) THEN CleanExpired(d, f, today)
                  ELSE [cache |-> d, file |-> f]
             dup == enabled /\ post_id \in DOMAIN r.cache
         IN  FetchLoop(Tail(listing), r.cache, r.file,
                       IF dup THEN acc
                       ELSE Append(acc, ExtractPostData(Head(listing))),
                       limit)

\* The position of the post get_best_post selects: the highest score, the
\* first of equals (the sort is stable).
BestIndex(ps) ==
    CHOOSE i \in 1..Len(ps) :
        /\ \A j \in 1..Len(ps) : ps[j].quality <= ps[i].quality
        /\ \A j \in 1..(i - 1) : ps[j].quality < ps[i].quality

IngInit ==
    /\ ing_dry_run \in BOOLEAN
    /\ enabled \in BOOLEAN
    /\ today = 0 /\ cache_file = NoFile
    /\ cache = [m \in Managers |-> EmptyMap]
    /\ last = NoCall
    /\ posts = <<>> /\ best = NoPost
    /\ processed = EmptyMap /\ fetched = [day |-> 0, processed |-> EmptyMap]

\* fetch_trending_posts (lines 52-112).
FetchTrendingPosts(limit) ==
    /\ \E listing \in Listings :
         LET r == IF ing_dry_run
                  THEN [cache |-> cache["m1"], file |-> cache_file, posts |-> TestPosts]
                  ELSE FetchLoop(listing, cache["m1"], cache_file, <<>>, limit)
         IN  /\ posts' = r.posts
             /\ cache' = [cache EXCEPT !["m1"] = r.cache]
             /\ cache_file' = r.file
    /\ fetched' = [day |-> today, processed |-> processed]
    /\ UNCHANGED <<ing_dry_run, best, processed, enabled, today, last, notDd>>

\* get_best_post (lines 195-223) on the list fetched last.
GetBestPost ==
    /\ IF posts = <<>>
       THEN /\ best' = NoPost
            /\ UNCHANGED <<cache, cache_file, processed>>
       ELSE LET b == posts[BestIndex(posts)]
                d == IF enabled
                     THEN Put(cache["m1"], GeneratePostId(b.url), today)
                     ELSE cache["m1"]
            IN  /\ best' = b
                /\ cache' = [cache EXCEPT !["m1"] = d]
                /\ cache_file' = IF enabled THEN WriteFile(d) ELSE cache_file
                /\ processed' = Put(processed, b.id, today)
    /\ UNCHANGED <<ing_dry_run, posts, fetched, enabled, today, last, notDd>>

\* RedditIngestor(...) (lines 19-33): a new ingestor with a new manager.
NewIngestor ==
    /\ LET r == LoadCache(cache_file, today) IN
         /\ cache' = [cache EXCEPT !["m1"] = r.cache]
         /\ cache_file' = r.file
    /\ posts' = <<>> /\ best' = NoPost
    /\ UNCHANGED <<ing_dry_run, processed, fetched, enabled, today, last, notDd>>

\* A day passes.
IngTick ==
    /\ today < MaxDay
    /\ today' = today + 1
    /\ UNCHANGED <<ingVars, enabled, cache, cache_file, last, notDd>>

IngFetch == \E limit \in Limits : FetchTrendingPosts(limit)

IngNext == IngFetch \/ GetBestPost \/ NewIngestor \/ IngTick

InitIngest == IngInit /\ PipeIdle /\ GwIdle /\ AsmIdle /\ AuxIdle

SpecIngest == InitIngest /\ [][IngNext]_vars

\* C5: with deduplication enabled, a live fetch_trending_posts never returns
\* a submission that get_best_post had returned (and so marked processed)
\* before the fetch and within the retention window.
C5_ProcessedNeverRefetched ==
    (enabled /\ ~ing_dry_run) =>
       \A i \in 1..Len(posts) :
          posts[i].id \in DOMAIN fetched.processed =>
             fetched.day - fetched.processed[posts[i].id] > CacheDays

(***************************************************************************)
(*            VIDEO ASSEMBLY  (src/src/modules/assemble_*.py)              *)
(***************************************************************************)

MaxClips == 2                 \* clips in the clips directory
NarrationDurations == {4, 10} \* D, seconds
ClipDurations == {2, 12}      \* seconds
BookendDurations == {0, 3}    \* intro.mp4 / outro.mp4; 0 when absent or not included

Strategies == {"Enhanced", "FFmpeg", "Fixed", "Proper", "Robust", "Simple"}

\* The ffmpeg commands of each strategy; each can exit non-zero.
CmdsOf(strategy) ==
    IF strategy = "Robust" THEN {"loop", "simple", "image"}
    ELSE IF strategy = "Proper" THEN {"concat", "alt_concat", "final", "retry"}
    ELSE IF strategy = "Fixed" THEN {"concat", "final"}
    ELSE IF strategy = "Simple" THEN {"final"}
    ELSE IF strategy = "Enhanced" THEN {"concat", "loop", "main", "final_concat"}
    ELSE {"concat", "loop", "combine", "recombine", "black"}

RECURSIVE SumSeq(_)
SumSeq(q) == IF q = <<>> THEN 0 ELSE Head(q) + SumSeq(Tail(q))

\* What an assembler hands back.
Video(d) == [kind |-> "video", duration |-> d]
Mock == [kind |-> "mock", duration |-> 5]
Placeholder == [kind |-> "placeholder", duration |-> 0]
ReturnedNone == [kind |-> "none", duration |-> 0]
Raised == [kind |-> "raised", duration |-> 0]

\* ffmpeg: the duration of an output limited by -t, without and with
\* -shortest, for a video stream of v seconds and an audio stream of a.
Muxed(v, a, t) == Min(Max(v, a), t)
MuxedShortest(v, a, t) == Min(Min(v, a), t)

\* RobustVideoAssembler._create_from_image (lines 142-181).
CreateFromImage(in) ==
    IF "image" \notin in.fail THEN Video(in.D) ELSE Placeholder

\* RobustVideoAssembler.assemble_video (lines 22-140), for the clip selected.
\* The first command loops the clip without end and cuts at -t D; the second
\* (lines 92-106) copies the clip once and stops at the shorter stream.
Robust(in, sel) ==
    IF in.dry_run THEN Mock
    ELSE IF in.clips = <<>>
    THEN IF in.thumbnail THEN CreateFromImage(in) ELSE Placeholder
    ELSE IF "loop" \notin in.fail THEN Video(in.D)
    ELSE IF "simple" \notin in.fail THEN Video(Min(in.clips[sel], in.D))
    ELSE IF in.thumbnail THEN CreateFromImage(in) ELSE Placeholder

\* Lines 56-59: the first clip, or a random one of the middle clips when
\* there are more than 3.
SelectableClips(clips) ==
    IF Len(clips) > 3 THEN 2..(Len(clips) - 1) ELSE {1}

\* ProperVideoAssembler.assemble_video (lines 22-239).
Proper(in) ==
    IF in.dry_run THEN Mock
    ELSE IF in.clips = <<>> THEN Placeholder
    ELSE LET loops_needed == (in.D \div (Len(in.clips) * 5)) + 1
             concat == Min(loops_needed * SumSeq(in.clips), in.D)
             alt == Min(SumSeq(in.clips), in.D)
             final(v) == IF "final" \notin in.fail
                            \/ (in.title /\ "retry" \notin in.fail)
                         THEN Video(Muxed(v, in.D, in.D))
                         ELSE Placeholder
         IN  IF "concat" \notin in.fail THEN final(concat)
             ELSE IF "alt_concat" \notin in.fail THEN final(alt)
             ELSE Placeholder

\* VideoAssembler.assemble_video and create_concatenated_video of
\* assemble_fixed.py (lines 46-153).
Fixed(in) ==
    IF in.clips = <<>> \/ SumSeq(in.clips) = 0 THEN Raised
    ELSE LET total == SumSeq(in.clips)
             repeat_count == Max(1, (in.D \div total) + 1)
         IN  IF "concat" \in in.fail \/ "final" \in in.fail THEN Raised
             ELSE Video(MuxedShortest(repeat_count * total, in.D, in.D))

\* SimpleVideoAssembler.assemble_video (lines 21-140): a still image (the
\* thumbnail, a frame of the first clip, or a black frame) under the audio.
Simple(in) ==
    IF in.dry_run THEN Mock
    ELSE IF "final" \notin in.fail THEN Video(in.D)
    ELSE Placeholder

\* EnhancedVideoAssembler.assemble_with_bookends (lines 30-113) with
\* _create_main_content, _loop_video_to_duration, _concatenate_with_audio.
Enhanced(in) ==
    IF in.clips = <<>> THEN ReturnedNone
    ELSE LET concat == SumSeq(in.clips)
             loops == (in.D \div concat) + 1
             looped == Min((loops + 1) * concat, in.D)
             main == MuxedShortest(looped, in.D, in.D)
         IN  IF {"concat", "loop", "main"} \cap in.fail # {} \/ concat <= 0
             THEN ReturnedNone
             ELSE IF in.intro > 0 \/ in.outro > 0
             THEN IF "final_concat" \notin in.fail
                  THEN Video(in.intro + main + in.outro)
                  ELSE ReturnedNone
             ELSE Video(main)

\* FFmpegVideoAssembler.assemble (lines 52-121) with _assemble_with_ffmpeg,
\* _concatenate_clips, _loop_video_to_duration, _combine_video_audio and
\* _create_black_video_with_audio.
FFmpeg(in) ==
    IF in.dry_run THEN Mock
    ELSE IF in.clips = <<>>
    THEN IF "black" \notin in.fail
         THEN Video(MuxedShortest(in.D, in.D, in.D)) ELSE Raised
    ELSE LET concat == in.intro + SumSeq(in.clips) + in.outro
             loops_needed == (in.D \div concat) + 2
             looped == IF concat >= in.D THEN Min(concat, in.D)
                       ELSE Min((loops_needed + 1) * concat, in.D)
         IN  IF {"concat", "loop"} \cap in.fail # {} THEN Raised
             ELSE IF "combine" \notin in.fail \/ "recombine" \notin in.fail
             THEN Video(Muxed(looped, in.D, in.D))
             ELSE Raised

AsmInit ==
    /\ \E strategy \in Strategies, n \in 0..MaxClips :
         asm_in \in [strategy : {strategy},
                     dry_run : IF strategy \in {"Enhanced", "Fixed"}
                               THEN {FALSE} ELSE BOOLEAN,
                     D : NarrationDurations,
                     clips : [1..n -> ClipDurations],
                     thumbnail : BOOLEAN,
                     title : BOOLEAN,
                     intro : BookendDurations,
                     outro : BookendDurations,
                     fail : SUBSET CmdsOf(strategy)]
    /\ asm_out = Pending

AssembleRobust ==
    /\ asm_in.strategy = "Robust" /\ asm_out = Pending
    /\ \E sel \in SelectableClips(asm_in.clips) : asm_out' = Robust(asm_in, sel)
    /\ UNCHANGED <<asm_in, notAsm>>

AssembleProper ==
    /\ asm_in.strategy = "Proper" /\ asm_out = Pending
    /\ asm_out' = Proper(asm_in)
    /\ UNCHANGED <<asm_in, notAsm>>

AssembleFixed ==
    /\ asm_in.strategy = "Fixed" /\ asm_out = Pending
    /\ asm_out' = Fixed(asm_in)
    /\ UNCHANGED <<asm_in, notAsm>>

AssembleSimple ==
    /\ asm_in.strategy = "Simple" /\ asm_out = Pending
    /\ asm_out' = Simple(asm_in)
    /\ UNCHANGED <<asm_in, notAsm>>

AssembleEnhanced ==
    /\ asm_in.strategy = "Enhanced" /\ asm_out = Pending
    /\ asm_out' = Enhanced(asm_in)
    /\ UNCHANGED <<asm_in, notAsm>>

AssembleFFmpeg ==
    /\ asm_in.strategy = "FFmpeg" /\ asm_out = Pending
    /\ asm_out' = FFmpeg(asm_in)
    /\ UNCHANGED <<asm_in, notAsm>>

AsmNext ==
    \/ AssembleRobust \/ AssembleProper \/ AssembleFixed
    \/ AssembleSimple \/ AssembleEnhanced \/ AssembleFFmpeg

InitAssembly == AsmInit /\ PipeIdle /\ GwIdle /\ DdIdle /\ IngIdle /\ AuxIdle

SpecAssembly == InitAssembly /\ [][AsmNext]_vars

(***************************************************************************)
(*                     CLAIMS ABOUT VIDEO ASSEMBLY                         *)
(***************************************************************************)

\* C6: for every strategy, with a narration of D seconds and at least one
\* valid clip, every path through the fallback chain that returns a video
\* returns one whose duration is within 1 second of D, whatever the clips'
\* durations and whether or not intro/outro bookends are included.
C6_VideoHasNarrationDuration ==
    (asm_in.clips # <<>> /\ asm_out.kind = "video") =>
       /\ asm_out.duration - asm_in.D <= 1
       /\ asm_in.D - asm_out.duration <= 1

\* C7: with no clip, a valid narration and a thumbnail, every strategy
\* returns a video of the narration's duration when its fallback command
\* succeeds, and no strategy lets an exception escape.
C7_NoClipsFallback ==
    (asm_in.strategy # "none" /\ asm_in.clips = <<>> /\ asm_in.thumbnail
       /\ ~asm_in.dry_run /\ asm_out # Pending) =>
       /\ asm_out.kind # "raised"
       /\ asm_in.fail = {} => asm_out = Video(asm_in.D)

(***************************************************************************)
(*            YOUTUBE UPLOADER  (src/src/modules/upload_youtube.py)        *)
(***************************************************************************)

\* The file to upload has at most MaxChunks chunks of 1MB.
MaxChunks == 2

\* A string is the sequence of its characters; a text of n characters whose
\* content varies with the position.
Alphabet == <<"a", "b", "c">>
Text(n) == [i \in 1..n |-> Alphabet[(i % 3) + 1]]
Ellipsis == <<".", ".", ".">>

TitleLengths == {100, 101, 150}
DescriptionLengths == {5000, 5001}
PrivacyValues == {"private", "unlisted", "public", "friends"}

VALID_PRIVACY_STATUSES == {"private", "unlisted", "public"}

\* The statuses an HttpError of next_chunk may carry.
HttpStatuses == {400, 403, 500, 501, 502, 503, 504}
\* A variant of RetriedStatuses that retries after every 5xx status.
RetriedStatusesAll5xx == {500, 501, 502, 503, 504}
\* `e.resp.status in [500, 502, 503, 504]`
RetriedStatuses == {500, 502, 503, 504}

RECURSIVE Pow2(_)
Pow2(n) == IF n = 0 THEN 1 ELSE 2 * Pow2(n - 1)

\* A variant of TruncateTitle that keeps the first 100 characters.
TruncateTitleKeep100(title) ==
    IF Len(title) > 100 THEN SubSeq(title, 1, 100) \o Ellipsis ELSE title
\* `if len(title) > 100: title = title[:97] + "..."`
TruncateTitle(title) ==
    IF Len(title) > 100 THEN SubSeq(title, 1, 97) \o Ellipsis ELSE title
\* `if len(description) > 5000: description = description[:4997] + "..."`
TruncateDescription(description) ==
    IF Len(description) > 5000 THEN SubSeq(description, 1, 4997) \o Ellipsis
    ELSE description
\* `if privacy_status not in self.VALID_PRIVACY_STATUSES: privacy_status = 'private'`
ValidatePrivacy(privacy_status) ==
    IF privacy_status \notin VALID_PRIVACY_STATUSES THEN "private"
    ELSE privacy_status

UpInit ==
    /\ up_in \in [authenticated : BOOLEAN, exists : BOOLEAN,
                  title : {Text(n) : n \in TitleLengths},
                  description : {Text(n) : n \in DescriptionLengths},
                  privacy_status : PrivacyValues, chunks : 1..MaxChunks]
    /\ up_pc = "idle" /\ up_body = NoBody /\ up_sent = 0 /\ retry = 0
    /\ up_last = NoChunk /\ up_sleeps = <<>> /\ up_ret = "pending"

\* upload_video up to the while loop: the two early returns, the validation
\* of the arguments and the request body.
UploadVideo_Begin ==
    /\ up_pc = "idle"
    /\ IF ~up_in.authenticated \/ ~up_in.exists
       THEN /\ up_pc' = "returned" /\ up_ret' = "None"
            /\ UNCHANGED up_body
       ELSE /\ up_body' = [title |-> TruncateTitle(up_in.title),
                           description |-> TruncateDescription(up_in.description),
                           privacyStatus |-> ValidatePrivacy(up_in.privacy_status)]
            /\ up_pc' = "loop"
            /\ UNCHANGED up_ret
    /\ UNCHANGED <<up_in, up_sent, retry, up_last, up_sleeps, notUp>>

\* request.next_chunk() returns (status, None): one more chunk is acknowledged.
NextChunk_Progress ==
    /\ up_pc = "loop"
    /\ up_sent + 1 < up_in.chunks
    /\ up_sent' = up_sent + 1
    /\ up_last' = [kind |-> "progress", status |-> 308]
    /\ UNCHANGED <<up_in, up_pc, up_body, retry, up_sleeps, up_ret, notUp>>

\* request.next_chunk() returns the response after the last chunk; the
\* thumbnail upload that follows is logged and does not change the result.
NextChunk_Response ==
    /\ up_pc = "loop"
    /\ up_sent + 1 = up_in.chunks
    /\ up_sent' = up_sent + 1
    /\ up_last' = [kind |-> "response", status |-> 200]
    /\ up_pc' = "returned"
    /\ up_ret' = "video_id"
    /\ UNCHANGED <<up_in, up_body, retry, up_sleeps, notUp>>

\* request.next_chunk() raises HttpError: lines 231-243, and the outer
\* `except HttpError` of line 260 when the error is raised again.
NextChunk_HttpError ==
    /\ up_pc = "loop"
    /\ \E status \in HttpStatuses :
         /\ up_last' = [kind |-> "http_error", status |-> status]
         /\ IF status \in RetriedStatuses
            THEN /\ retry' = retry + 1
                 /\ IF retry + 1 > 5
                    THEN /\ up_pc' = "returned" /\ up_ret' = "None"
                         /\ UNCHANGED up_sleeps
                    ELSE /\ up_sleeps' = Append(up_sleeps, Pow2(retry + 1))
                         /\ UNCHANGED <<up_pc, up_ret>>
            ELSE /\ up_pc' = "returned" /\ up_ret' = "None"
                 /\ UNCHANGED <<retry, up_sleeps>>
    /\ UNCHANGED <<up_in, up_body, up_sent, notUp>>

\* request.next_chunk() raises any other exception: lines 245-247 and 264-266.
NextChunk_Exception ==
    /\ up_pc = "loop"
    /\ up_last' = [kind |-> "exception", status |-> 0]
    /\ up_pc' = "returned" /\ up_ret' = "None"
    /\ UNCHANGED <<up_in, up_body, up_sent, retry, up_sleeps, notUp>>

UpNext ==
    \/ UploadVideo_Begin
    \/ NextChunk_Progress
    \/ NextChunk_Response
    \/ NextChunk_HttpError
    \/ NextChunk_Exception

InitUpload == UpInit /\ CoreIdle /\ TtsIdle /\ ClsIdle /\ RnIdle /\ JfIdle /\ SgIdle /\ ExtIdle

\* Every call of next_chunk returns or raises, and time.sleep returns.
SpecUpload == InitUpload /\ [][UpNext]_vars /\ WF_vars(UpNext)

\* C12: within one upload_video call a next_chunk failure is followed by
\* another attempt only when it was an HttpError of status 500, 502, 503 or
\* 504; at most 5 such retries are made, the k-th after sleeping 2^k seconds;
\* the sixth such error, and any other error at once, ends the upload with
\* None and without sleeping; and the call always returns.
C12_Retried ==
    /\ retry \in 0..6
    /\ up_sleeps = [k \in 1..Min(retry, 5) |-> Pow2(k)]
    /\ retry = 6 => up_pc = "returned" /\ up_ret = "None"
    /\ up_last.kind = "exception" => up_pc = "returned" /\ up_ret = "None"
    /\ up_last.kind = "http_error" /\ up_last.status \notin {500, 502, 503, 504}
         => up_pc = "returned" /\ up_ret = "None"
C12_Step ==
    /\ retry' # retry =>
         /\ retry' = retry + 1
         /\ up_last'.kind = "http_error"
         /\ up_last'.status \in {500, 502, 503, 504}
    /\ up_sleeps' # up_sleeps => retry' # retry
    /\ up_pc = "loop" /\ up_pc' = "loop" /\ up_last'.kind = "http_error"
         => retry' = retry + 1 /\ retry' <= 5
    /\ up_pc = "returned" => UNCHANGED upVars
C12_UploadRetry ==
    /\ []C12_Retried
    /\ [][C12_Step]_vars
    /\ <>(up_pc = "returned")
C12_Witness ==
    /\ up_pc = "returned" /\ retry = 6 /\ up_ret = "None"
    /\ up_sleeps = <<2, 4, 8, 16, 32>> /\ up_sent = 1

\* C19: the body upload_video submits has a title of more than 100 characters
\* replaced by its first 97 characters and '...', a description of more than
\* 5000 characters by its first 4997 and '...', a privacy value that is not
\* private, unlisted or public by 'private', and anything else unchanged.
C19_BodyNormalised ==
    up_body # NoBody =>
      /\ LET t == up_in.title  b == up_body.title IN
           IF Len(t) > 100
           THEN /\ Len(b) = 100
                /\ SubSeq(b, 1, 97) = SubSeq(t, 1, 97)
                /\ SubSeq(b, 98, 100) = <<".", ".", ".">>
           ELSE b = t
      /\ LET d == up_in.description  b == up_body.description IN
           IF Len(d) > 5000
           THEN /\ Len(b) = 5000
                /\ SubSeq(b, 1, 4997) = SubSeq(d, 1, 4997)
                /\ SubSeq(b, 4998, 5000) = <<".", ".", ".">>
           ELSE b = d
      /\ up_body.privacyStatus =
           IF up_in.privacy_status \in {"private", "unlisted", "public"}
           THEN up_in.privacy_status ELSE "private"
C19_Witness ==
    /\ up_pc = "returned" /\ up_ret = "video_id"
    /\ Len(up_in.title) = 150 /\ Len(up_body.title) = 100
    /\ Len(up_in.description) = 5001 /\ Len(up_body.description) = 5000
    /\ up_in.privacy_status = "friends" /\ up_body.privacyStatus = "private"

(***************************************************************************)
(*           SPEECH-SYNTHESIS DISPATCHER  (src/src/modules/tts.py)         *)
(***************************************************************************)

\* The word counts of the narration text; multiples of 11, so that the mock
\* duration (word_count / 165) * 60 is a whole number of seconds.
WordCounts == {0, 11, 165}
\* What the provider's call does: 0 = it raises, otherwise the duration in
\* seconds of the audio it returns.
SynthesisOutcomes == {0, 5, 70}
Providers == {"elevenlabs", "azure"}
\* test_connection(): True, False, or an exception.
Connections == {"ok", "refused", "raises"}

\* `duration = (word_count / 165) * 60`
MockDuration(word_count) == (word_count * 60) \div 165

\* _generate_mock_audio: a WAV file of the computed duration.
MockAudio(word_count, failed) ==
    [kind |-> "mock", duration |-> MockDuration(word_count),
     provider_failed |-> failed]

\* _init_tts_client: the client the constructor ends up with.
InitTtsClient(in) ==
    IF in.provider = "elevenlabs" /\ in.api_key /\ in.connection = "ok"
    THEN "ElevenLabsTTS" ELSE "None"

\* _generate_real_audio (lines 194-224) around ElevenLabsTTS.generate_audio,
\* which raises Exception("ElevenLabs TTS failed: ...") on every failure.
GenerateRealAudio(in, c) ==
    IF c # "None"
    THEN IF in.synthesis # 0
         THEN [kind |-> "real", duration |-> in.synthesis, provider_failed |-> FALSE]
         ELSE MockAudio(in.words, TRUE)
    ELSE MockAudio(in.words, FALSE)

TtsInit ==
    /\ tts_in \in [dry_run : BOOLEAN, tts_enabled : BOOLEAN, provider : Providers,
                   api_key : BOOLEAN, connection : Connections,
                   words : WordCounts, synthesis : SynthesisOutcomes]
    /\ tts_pc = "new" /\ client = "None" /\ tts_out = NoAudio

\* TextToSpeech.__init__
NewTextToSpeech ==
    /\ tts_pc = "new"
    /\ client' = IF ~tts_in.dry_run /\ tts_in.tts_enabled
                 THEN InitTtsClient(tts_in) ELSE "None"
    /\ tts_pc' = "ready"
    /\ UNCHANGED <<tts_in, tts_out, notTts>>

\* generate_audio when `self.dry_run or not self.client`.
GenerateAudio_Mock ==
    /\ tts_pc = "ready"
    /\ tts_in.dry_run \/ client = "None"
    /\ tts_out' = MockAudio(tts_in.words, FALSE)
    /\ tts_pc' = "done"
    /\ UNCHANGED <<tts_in, client, notTts>>

\* generate_audio through _generate_real_audio.
GenerateAudio_Real ==
    /\ tts_pc = "ready"
    /\ ~(tts_in.dry_run \/ client = "None")
    /\ tts_out' = GenerateRealAudio(tts_in, client)
    /\ tts_pc' = "done"
    /\ UNCHANGED <<tts_in, client, notTts>>

TtsNext ==
    \/ NewTextToSpeech
    \/ GenerateAudio_Mock
    \/ GenerateAudio_Real

InitTts == TtsInit /\ CoreIdle /\ UpIdle /\ ClsIdle /\ RnIdle /\ JfIdle /\ SgIdle /\ ExtIdle

SpecTts == InitTts /\ [][TtsNext]_vars

\* C13: when generate_audio runs with a client and not in dry run and the
\* provider's synthesis call fails, generate_audio raises: it returns no
\* substitute audio.
C13_SynthesisFailureRaised ==
    tts_pc = "done" /\ ~tts_in.dry_run /\ client # "None" /\ tts_in.synthesis = 0
      => tts_out.kind = "raised"

(***************************************************************************)
(*               TOPIC CLASSIFIER  (src/src/modules/classify.py)           *)
(***************************************************************************)

\* The keyword occurrences pattern.findall finds in the title (which the
\* text blob repeats 3 times) and in the rest of the blob.
MaxTitleHits == 6
MaxOtherHits == 4

\* topics.default of the configuration, and the topics that have keywords.
default_topic == "explainer"
RuleTopics == <<"ai_news", "listicle">>

\* `subreddit_mappings` of _subreddit_classification, in dict order.
subreddit_mappings ==
    << [topic |-> "ai_news", subreddits |->
        <<<<"a", "r", "t", "i", "f", "i", "c", "i", "a", "l", "i", "n", "t", "e", "l", "l", "i", "g", "e", "n", "c", "e">>,
          <<"m", "a", "c", "h", "i", "n", "e", "l", "e", "a", "r", "n", "i", "n", "g">>,
          <<"o", "p", "e", "n", "a", "i">>,
          <<"s", "i", "n", "g", "u", "l", "a", "r", "i", "t", "y">>,
          <<"t", "e", "c", "h", "n", "o", "l", "o", "g", "y">>>>],
       [topic |-> "listicle", subreddits |->
        <<<<"t", "o", "d", "a", "y", "i", "l", "e", "a", "r", "n", "e", "d">>,
          <<"i", "n", "t", "e", "r", "e", "s", "t", "i", "n", "g", "a", "s", "f", "u", "c", "k">>,
          <<"m", "i", "l", "d", "l", "y", "i", "n", "t", "e", "r", "e", "s", "t", "i", "n", "g">>,
          <<"d", "a", "t", "a", "i", "s", "b", "e", "a", "u", "t", "i", "f", "u", "l">>,
          <<"c", "o", "o", "l", "g", "u", "i", "d", "e", "s">>>>],
       [topic |-> "explainer", subreddits |->
        <<<<"e", "x", "p", "l", "a", "i", "n", "l", "i", "k", "e", "i", "m", "f", "i", "v", "e">>,
          <<"a", "s", "k", "s", "c", "i", "e", "n", "c", "e">>,
          <<"a", "s", "k", "r", "e", "d", "d", "i", "t">>,
          <<"n", "o", "s", "t", "u", "p", "i", "d", "q", "u", "e", "s", "t", "i", "o", "n", "s">>,
          <<"o", "u", "t", "o", "f", "t", "h", "e", "l", "o", "o", "p">>>>] >>

\* The community names of the posts: missing, an exact name in capitals, an
\* exact name, a name that contains one, a name contained in one, and none.
Subreddits ==
    { <<>>,
      <<"O", "p", "e", "n", "A", "I">>,
      <<"t", "o", "d", "a", "y", "i", "l", "e", "a", "r", "n", "e", "d">>,
      <<"o", "p", "e", "n", "a", "i", "d", "e", "v">>,
      <<"s", "c", "i", "e", "n", "c", "e">>,
      <<"c", "o", "o", "k", "i", "n", "g">> }

\* str.lower() on the characters the model's strings use.
LowerChar(c) ==
    CASE c = "O" -> "o" [] c = "A" -> "a" [] c = "I" -> "i"
      [] c = "Y" -> "y" [] c = "E" -> "e" [] c = "S" -> "s" [] OTHER -> c
Lower(str) == [i \in 1..Len(str) |-> LowerChar(str[i])]

\* `a in b` on strings.
IsSubstring(a, b) ==
    \E i \in 0..(Len(b) - Len(a)) : SubSeq(b, i + 1, i + Len(a)) = a

\* len(found_keywords) and len(unique_keywords) of one topic.
MatchCount(h) == 3 * h.title + h.other
UniqueCount(h) == h.unique

\* `score = (match_count * 0.7 + unique_count * 0.3)`, in tenths.
Score(h) == MatchCount(h) * 7 + UniqueCount(h) * 3

\* `confidence = min(best_score / max_possible_score, 1.0)` with
\* max_possible_score = 20, in thousandths.  For the match counts of the
\* posts below, the comparisons classify() makes on the double give the
\* outcome they give on this exact value.
Confidence(score) == Min((score * 100) \div 20, 1000)

\* _rule_based_classification.
RuleBasedClassification(p) ==
    LET matches == {i \in 1..Len(RuleTopics) : MatchCount(p.hits[i]) > 0}
        \* max(matches, key=matches.get): the first topic of maximal score
        best_topic == CHOOSE i \in matches : \A j \in matches :
                    \/ Score(p.hits[i]) > Score(p.hits[j])
                    \/ Score(p.hits[i]) = Score(p.hits[j]) /\ i <= j
    IN  IF matches = {}
        THEN [topic |-> default_topic, confidence |-> 300, method |-> "rule_based"]
        ELSE [topic |-> RuleTopics[best_topic],
              confidence |-> Confidence(Score(p.hits[best_topic])),
              method |-> "rule_based"]

\* _subreddit_classification.
SubredditClassification(p) ==
    LET subreddit == Lower(p.subreddit)
        Has(k, s) == \E n \in 1..Len(subreddit_mappings[k].subreddits) :
                         s = subreddit_mappings[k].subreddits[n]
        exact == {k \in 1..Len(subreddit_mappings) : Has(k, subreddit)}
        partial == {k \in 1..Len(subreddit_mappings) :
                      \E n \in 1..Len(subreddit_mappings[k].subreddits) :
                         LET sub == subreddit_mappings[k].subreddits[n] IN
                         IsSubstring(sub, subreddit) \/ IsSubstring(subreddit, sub)}
        First(S) == CHOOSE k \in S : \A j \in S : k <= j
    IN  IF exact # {}
        THEN [topic |-> subreddit_mappings[First(exact)].topic, confidence |-> 800]
        ELSE IF partial # {}
        THEN [topic |-> subreddit_mappings[First(partial)].topic, confidence |-> 600]
        ELSE [topic |-> default_topic, confidence |-> 300]

\* A variant of classify that also returns at once at confidence 0.7.
ClassifyAcceptAt07(p) ==
    LET rule == RuleBasedClassification(p)
        sub == SubredditClassification(p)
        second == IF sub.confidence > rule.confidence
                  THEN [topic |-> sub.topic, confidence |-> sub.confidence,
                        method |-> "subreddit"]
                  ELSE rule
    IN  IF rule.confidence >= 700 THEN rule
        ELSE IF second.confidence < 500
        THEN [topic |-> default_topic, confidence |-> 400, method |-> "default"]
        ELSE second

\* classify: the topic, the confidence (thousandths) and the
\* classification_method of the metadata.
classify(p) ==
    LET rule == RuleBasedClassification(p)
        sub == SubredditClassification(p)
        second == IF sub.confidence > rule.confidence
                  THEN [topic |-> sub.topic, confidence |-> sub.confidence,
                        method |-> "subreddit"]
                  ELSE rule
    IN  IF rule.confidence > 700 THEN rule
        ELSE IF second.confidence < 500
        THEN [topic |-> default_topic, confidence |-> 400, method |-> "default"]
        ELSE second

\* The elements of a sequence of optional items that are present.
Present(items) == SelectSeq(items, LAMBDA x : x # "")

\* analyze_post_suitability.
analyze_post_suitability(p) ==
    LET short == p.title_length < 20
        long == ~short /\ p.title_length > 200
        thin == p.selftext_length < 50 /\ p.url \in {"none", "reddit"}
        issues == Present(<<IF short THEN "Title too short" ELSE "",
                            IF thin THEN "Insufficient content" ELSE "",
                            IF p.banned > 0 THEN "Contains banned terms" ELSE "">>)
        warnings == Present(<<IF long THEN "Title very long" ELSE "",
                              IF p.sensitive > 0 THEN "Contains sensitive topics" ELSE "",
                              IF p.score < 100 THEN "Low engagement score" ELSE "",
                              IF p.upvote_ratio < 70 THEN "Low upvote ratio" ELSE "">>)
        score == 100 - (IF short THEN 20 ELSE 0) - (IF long THEN 5 ELSE 0)
                     - (IF thin THEN 30 ELSE 0) - (IF p.banned > 0 THEN 50 ELSE 0)
                     - (IF p.sensitive > 0 THEN 15 ELSE 0)
                     - (IF p.score < 100 THEN 10 ELSE 0)
                     - (IF p.upvote_ratio < 70 THEN 10 ELSE 0)
        is_suitable == score >= 50 /\ Len(issues) = 0
    IN  [is_suitable |-> is_suitable, score |-> Max(0, score), issues |-> issues,
         warnings |-> warnings,
         recommendation |-> IF is_suitable THEN "approved" ELSE "rejected",
         requires_disclaimer |-> p.sensitive > 0]

\* What pattern.findall can find for the first topic and for the second.
Hits ==
    {h \in [title : 0..MaxTitleHits, other : 0..MaxOtherHits,
            unique : 0..(MaxTitleHits + MaxOtherHits)] :
        IF h.title + h.other = 0 THEN h.unique = 0
        ELSE h.unique \in 1..(h.title + h.other)}
FewHits == {NoHits, [title |-> 0, other |-> 1, unique |-> 1],
            [title |-> 1, other |-> 0, unique |-> 1]}

\* The posts classify is tried on, and those analyze_post_suitability is.
ClassifyPosts ==
    {[NoClsPost EXCEPT !.hits = <<h[1], h[2]>>, !.subreddit = s] :
        h \in Hits \X FewHits, s \in Subreddits}
SuitabilityPosts ==
    [hits : {<<NoHits, NoHits>>}, subreddit : {<<>>},
     title_length : {19, 20, 200, 201}, selftext_length : {0, 49, 50},
     url : {"none", "reddit", "external"}, banned : 0..1, sensitive : 0..1,
     score : {99, 100, 5000}, upvote_ratio : {69, 70, 95}]

ClsInit ==
    /\ cls_post \in ClassifyPosts \cup SuitabilityPosts
    /\ cls_pc = "called" /\ cls_out = NoClsOut

Classify ==
    /\ cls_pc = "called"
    /\ LET r == classify(cls_post) IN
         cls_out' = [NoClsOut EXCEPT !.op = "classify", !.topic = r.topic,
                       !.confidence = r.confidence, !.method = r.method]
    /\ cls_pc' = "returned"
    /\ UNCHANGED <<cls_post, notCls>>

AnalyzePostSuitability ==
    /\ cls_pc = "called"
    /\ LET r == analyze_post_suitability(cls_post) IN
         cls_out' = [NoClsOut EXCEPT !.op = "analyze_post_suitability",
                       !.is_suitable = r.is_suitable, !.score = r.score,
                       !.issues = r.issues, !.warnings = r.warnings,
                       !.recommendation = r.recommendation,
                       !.requires_disclaimer = r.requires_disclaimer]
    /\ cls_pc' = "returned"
    /\ UNCHANGED <<cls_post, notCls>>

ClsNext ==
    \/ Classify
    \/ AnalyzePostSuitability

InitClassify == ClsInit /\ CoreIdle /\ UpIdle /\ TtsIdle /\ RnIdle /\ JfIdle /\ SgIdle /\ ExtIdle

SpecClassify == InitClassify /\ [][ClsNext]_vars

\* C14: analyze_post_suitability judges a post suitable iff its score is at
\* least 50 and it has no issues; a post whose only deduction is the one for
\* a title under 20 characters is scored 80 and judged suitable; the same
\* post with one banned term is scored at most 30 and judged unsuitable.
C14_ShortTitleSuitable ==
    cls_out.op = "analyze_post_suitability" =>
      LET clean == /\ cls_post.title_length < 20
                   /\ cls_post.selftext_length >= 50 /\ cls_post.sensitive = 0
                   /\ cls_post.score >= 100 /\ cls_post.upvote_ratio >= 70
      IN  /\ cls_out.is_suitable <=> (cls_out.score >= 50 /\ cls_out.issues = <<>>)
          /\ clean /\ cls_post.banned = 0
               => cls_out.score = 80 /\ cls_out.is_suitable
          /\ clean /\ cls_post.banned = 1
               => cls_out.score <= 30 /\ ~cls_out.is_suitable

\* C15: classify returns the rule-based result at once only when its
\* confidence is strictly above 0.7; otherwise the subreddit result replaces
\* it only when its confidence is strictly higher, and a resulting confidence
\* below 0.5 gives the default topic with confidence 0.4; 10 occurrences of 5
\* distinct keywords of one topic give 0.425, which is not accepted at once.
C15_ConfidenceGate ==
    cls_out.op = "classify" =>
      LET rule == RuleBasedClassification(cls_post)
          sub == SubredditClassification(cls_post)
          got == [topic |-> cls_out.topic, confidence |-> cls_out.confidence]
      IN  /\ rule.confidence > 700 =>
               got = [topic |-> rule.topic, confidence |-> rule.confidence]
                 /\ cls_out.method = "rule_based"
          /\ rule.confidence <= 700 /\ sub.confidence > rule.confidence =>
               IF sub.confidence < 500
               THEN got = [topic |-> default_topic, confidence |-> 400]
               ELSE got = sub /\ cls_out.method = "subreddit"
          /\ rule.confidence <= 700 /\ sub.confidence <= rule.confidence =>
               IF rule.confidence < 500
               THEN got = [topic |-> default_topic, confidence |-> 400]
               ELSE got = [topic |-> rule.topic, confidence |-> rule.confidence]
                      /\ cls_out.method = "rule_based"
          /\ MatchCount(cls_post.hits[1]) = 10 /\ UniqueCount(cls_post.hits[1]) = 5
               /\ cls_post.hits[2] = NoHits =>
               rule.confidence = 425 /\ cls_out.method # "rule_based"
C15_Witness ==
    /\ cls_out.op = "classify"
    /\ cls_post.hits = <<[title |-> 2, other |-> 4, unique |-> 5], NoHits>>
    /\ cls_post.subreddit = <<"c", "o", "o", "k", "i", "n", "g">>
    /\ cls_out.topic = "explainer" /\ cls_out.confidence = 400
    /\ cls_out.method = "default"
\* C15 as stated: 10 occurrences of 5 distinct keywords give 0.475.
C15_Confidence0475 ==
    cls_out.op = "classify"
      /\ MatchCount(cls_post.hits[1]) = 10 /\ UniqueCount(cls_post.hits[1]) = 5
      /\ cls_post.hits[2] = NoHits =>
         /\ RuleBasedClassification(cls_post).confidence = 475
         /\ cls_out.method # "rule_based"

\* C30: the confidence classify returns is exactly 0.4 or at least 0.5; it
\* is 0.4 exactly when the default topic was forced with
\* classification_method 'default'; and a post with an empty or missing
\* community name and no keyword match gets the default topic at 0.4.
C30_ConfidenceValues ==
    (cls_pc = "returned" /\ cls_out.op = "classify") =>
       /\ cls_out.confidence = 400 \/ cls_out.confidence >= 500
       /\ cls_out.confidence = 400 <=>
             (cls_out.method = "default" /\ cls_out.topic = default_topic)
       /\ (cls_post.subreddit = <<>>
             /\ \A i \in 1..Len(cls_post.hits) : MatchCount(cls_post.hits[i]) = 0) =>
             (cls_out.topic = default_topic /\ cls_out.confidence = 400)

(***************************************************************************)
(*   PRODUCTION RUNNERS  (src/production_pipeline.py, production_simple.py) *)
(***************************************************************************)

Runners == {"full", "simple"}
\* What the operator types at the prompt.
Answers == { <<"y", "e", "s">>, <<"Y", "E", "S">>, <<"Y", "e", "s">>,
             <<"n", "o">>, <<"y">>, <<>> }
\* How the chain ends once the credentials are there: it returns True, it
\* returns False, or a step raises.
ChainOutcomes == {"success", "failure", "raises"}

\* The module-level imports.  production_pipeline.py imports the name
\* Classifier from src.modules.classify, which defines TopicClassifier only.
ImportsResolve(runner) == runner = "simple"

\* The exit status of a cancelled run: main() returns (full), sys.exit(0)
\* (simple).
CancelStatus(runner) == 0

\* `sys.exit(0 if success else 1)`; an uncaught exception exits with 1.
ExitCode(outcome) == IF outcome = "success" THEN 0 ELSE 1

RnInit ==
    /\ rn_in \in [runner : Runners, answer : Answers, keys : BOOLEAN,
                  outcome : ChainOutcomes]
    /\ rn_pc = "start" /\ rn_log = <<>> /\ exit_status = -1

\* The script is started: lines 1-22 of either file.
Runner_Import ==
    /\ rn_pc = "start"
    /\ IF ImportsResolve(rn_in.runner)
       THEN rn_pc' = "prompt" /\ UNCHANGED <<rn_log, exit_status>>
       ELSE /\ rn_log' = Append(rn_log, "ImportError")
            /\ rn_pc' = "exited" /\ exit_status' = 1
    /\ UNCHANGED <<rn_in, notRn>>

\* The confirmation prompt of main() / of the __main__ block.
Runner_Confirm ==
    /\ rn_pc = "prompt"
    /\ IF Lower(rn_in.answer) # <<"y", "e", "s">>
       THEN /\ rn_log' = rn_log \o <<"input", "cancelled">>
            /\ rn_pc' = "exited" /\ exit_status' = CancelStatus(rn_in.runner)
       ELSE /\ rn_log' = Append(rn_log, "input")
            /\ rn_pc' = "running" /\ UNCHANGED exit_status
    /\ UNCHANGED <<rn_in, notRn>>

\* run_production_pipeline() / run_production() and the sys.exit after it.
Runner_Chain ==
    /\ rn_pc = "running"
    /\ IF ~rn_in.keys
       THEN /\ rn_log' = Append(rn_log, "missing_keys")
            /\ exit_status' = 1
       ELSE /\ rn_log' = rn_log \o <<"live_service", rn_in.outcome>>
            /\ exit_status' = ExitCode(rn_in.outcome)
    /\ rn_pc' = "exited"
    /\ UNCHANGED <<rn_in, notRn>>

RnNext ==
    \/ Runner_Import
    \/ Runner_Confirm
    \/ Runner_Chain

InitRunner == RnInit /\ CoreIdle /\ UpIdle /\ TtsIdle /\ ClsIdle /\ JfIdle /\ SgIdle /\ ExtIdle

SpecRunner == InitRunner /\ [][RnNext]_vars

\* C16: a production runner contacts a live service only after it has asked
\* for confirmation and the answer was 'yes'; once it has exited, its status
\* is 0 if the chain succeeded and 1 if the chain failed or the operator
\* gave any other answer.
C16_ConfirmThenExitStatus ==
    LET Position(e) == CHOOSE i \in 1..Len(rn_log) : rn_log[i] = e
        Logged(e) == \E i \in 1..Len(rn_log) : rn_log[i] = e
    IN  /\ Logged("live_service") =>
             /\ Logged("input") /\ Position("input") < Position("live_service")
             /\ Lower(rn_in.answer) = <<"y", "e", "s">>
        /\ rn_pc = "exited" /\ Logged("success") => exit_status = 0
        /\ rn_pc = "exited" /\ (Logged("failure") \/ Logged("raises")
                                  \/ Logged("missing_keys")) => exit_status = 1
        /\ rn_pc = "exited" /\ Logged("cancelled") => exit_status = 1

(***************************************************************************)
(*              JSON REPAIR UTILITY  (src/src/utils/json_fixer.py)         *)
(***************************************************************************)

\* A text is a sequence of tokens, each standing for the characters of one
\* lexical item.  k = "p": one of the characters { } [ ] , :
\* k = "s": a string literal in ASCII double quotes, v its content
\* k = "q": the same between curly quotation marks (U+201C, U+201D)
\* k = "w": one whitespace character (v = " " or "\n")
\* k = "x": the two characters backslash, n
\* k = "l": a run of letters outside any quotes
P(c) == [k |-> "p", v |-> c]
S(v) == [k |-> "s", v |-> v]
Q(v) == [k |-> "q", v |-> v]
L(v) == [k |-> "l", v |-> v]
SP == [k |-> "w", v |-> " "]
NL == [k |-> "w", v |-> "\n"]
EscapedNL == [k |-> "x", v |-> "\\n"]

\* The runs of letters that are a single letter.
SingleLetters == {"e"}

IsWs(tok) == tok.k = "w"
IsOpen(tok) == tok = P("{") \/ tok = P("[")
IsClose(tok) == tok = P("}") \/ tok = P("]")

\* The position of the first token at or after i that is not whitespace
\* (Len + 1 if there is none): the WHITESPACE.match of the decoder, and \s*.
RECURSIVE SkipWs(_, _)
SkipWs(toks, i) ==
    IF i <= Len(toks) /\ IsWs(toks[i]) THEN SkipWs(toks, i + 1) ELSE i

(***************************************************************************)
(* json.loads, on tokens.  A result is [ok, value, pos, msg]: the value    *)
(* and the position after it, or the message of the JSONDecodeError and    *)
(* the position it names.                                                  *)
(***************************************************************************)
Str(v) == [t |-> "str", v |-> v, items |-> <<>>]
Arr(items) == [t |-> "arr", v |-> "", items |-> items]
Obj(items) == [t |-> "obj", v |-> "", items |-> items]
Item(key, val) == [key |-> key, val |-> val]

Parsed(value, pos) == [ok |-> TRUE, value |-> value, pos |-> pos, msg |-> ""]
DecodeError(msg, pos) == [ok |-> FALSE, value |-> Null, pos |-> pos, msg |-> msg]

\* dict[key] = val: a repeated key keeps its place and takes the new value.
SetItem(items, key, val) ==
    IF \E n \in 1..Len(items) : items[n].key = key
    THEN [n \in 1..Len(items) |->
            IF items[n].key = key THEN Item(key, val) ELSE items[n]]
    ELSE Append(items, Item(key, val))

RECURSIVE ScanOnce(_, _), JSONObject(_, _, _), JSONArray(_, _, _)
\* scan_once: the value that starts at position i.
ScanOnce(toks, i) ==
    IF i > Len(toks) THEN DecodeError("Expecting value", i)
    ELSE IF toks[i].k = "s" THEN Parsed(Str(toks[i].v), i + 1)
    ELSE IF toks[i] = P("{") THEN JSONObject(toks, SkipWs(toks, i + 1), <<>>)
    ELSE IF toks[i] = P("[") THEN JSONArray(toks, SkipWs(toks, i + 1), <<>>)
    ELSE DecodeError("Expecting value", i)

\* JSONObject, at the position where a key or the closing brace is due.
JSONObject(toks, i, items) ==
    IF i <= Len(toks) /\ toks[i] = P("}") /\ items = <<>>
    THEN Parsed(Obj(items), i + 1)
    ELSE IF i > Len(toks) \/ toks[i].k # "s"
    THEN DecodeError("Expecting property name enclosed in double quotes", i)
    ELSE LET colon == SkipWs(toks, i + 1) IN
         IF colon > Len(toks) \/ toks[colon] # P(":")
         THEN DecodeError("Expecting ':' delimiter", colon)
         ELSE LET val == ScanOnce(toks, SkipWs(toks, colon + 1)) IN
              IF ~val.ok THEN val
              ELSE LET next == SkipWs(toks, val.pos)
                       more == SetItem(items, toks[i].v, val.value)
                   IN  IF next <= Len(toks) /\ toks[next] = P("}")
                       THEN Parsed(Obj(more), next + 1)
                       ELSE IF next > Len(toks) \/ toks[next] # P(",")
                       THEN DecodeError("Expecting ',' delimiter", next)
                       ELSE JSONObject(toks, SkipWs(toks, next + 1), more)

\* JSONArray, at the position where a value or the closing bracket is due.
JSONArray(toks, i, items) ==
    IF i <= Len(toks) /\ toks[i] = P("]") /\ items = <<>>
    THEN Parsed(Arr(items), i + 1)
    ELSE LET val == ScanOnce(toks, i) IN
         IF ~val.ok THEN val
         ELSE LET next == SkipWs(toks, val.pos)
                  more == Append(items, val.value)
              IN  IF next <= Len(toks) /\ toks[next] = P("]")
                  THEN Parsed(Arr(more), next + 1)
                  ELSE IF next > Len(toks) \/ toks[next] # P(",")
                  THEN DecodeError("Expecting ',' delimiter", next)
                  ELSE JSONArray(toks, SkipWs(toks, next + 1), more)

\* json.loads: JSONDecoder.decode.
Loads(toks) ==
    LET val == ScanOnce(toks, SkipWs(toks, 1))
        end == SkipWs(toks, val.pos)
    IN  IF ~val.ok THEN val
        ELSE IF end # Len(toks) + 1 THEN DecodeError("Extra data", end)
        ELSE val

(***************************************************************************)
(* fix_json, on tokens.                                                    *)
(***************************************************************************)
\* Lines 25-43: drop what precedes the first { or [ and what follows the
\* last } or ].
TrimToJson(toks) ==
    LET opens == {i \in 1..Len(toks) : IsOpen(toks[i])}
        json_start == IF opens = {} THEN 0
                      ELSE CHOOSE i \in opens : \A j \in opens : i <= j
        cut == IF json_start > 1 THEN SubSeq(toks, json_start, Len(toks)) ELSE toks
        closes == {i \in 1..Len(cut) : IsClose(cut[i])}
        json_end == IF closes = {} THEN 0
                    ELSE CHOOSE i \in closes : \A j \in closes : i >= j
    IN  IF json_end > 0 /\ json_end < Len(cut) THEN SubSeq(cut, 1, json_end) ELSE cut

\* Lines 47-49 as they stand in the source: both arguments of the first two
\* replace calls are the ASCII double quote, and the string the other two
\* look for does not occur in a JSON text; curly quotation marks stay.
FixSmartQuotes(toks) == toks

\* re.sub(r',\s*([}\]])', r'\1', text), from position i on.
RECURSIVE RemoveTrailingCommas(_, _)
RemoveTrailingCommas(toks, i) ==
    IF i > Len(toks) THEN <<>>
    ELSE LET j == SkipWs(toks, i + 1) IN
         IF toks[i] = P(",") /\ j <= Len(toks) /\ IsClose(toks[j])
         THEN <<toks[j]>> \o RemoveTrailingCommas(toks, j + 1)
         ELSE <<toks[i]>> \o RemoveTrailingCommas(toks, i + 1)

\* re.sub(r'}\s*{', r'},{', text) (close = }, open = {) and
\* re.sub(r']\s*\[', r'],[', text), from position i on.
RECURSIVE InsertCommas(_, _, _, _)
InsertCommas(toks, i, close, open) ==
    IF i > Len(toks) THEN <<>>
    ELSE LET j == SkipWs(toks, i + 1) IN
         IF toks[i] = P(close) /\ j <= Len(toks) /\ toks[j] = P(open)
         THEN <<P(close), P(","), P(open)>> \o InsertCommas(toks, j + 1, close, open)
         ELSE <<toks[i]>> \o InsertCommas(toks, i + 1, close, open)

\* re.sub(r'}\s*[a-zA-Z]\s*{', r'},{', text), from position i on.
RECURSIVE RemoveStrayLetters(_, _)
RemoveStrayLetters(toks, i) ==
    IF i > Len(toks) THEN <<>>
    ELSE LET j == SkipWs(toks, i + 1)
             n == SkipWs(toks, j + 1)
         IN  IF /\ toks[i] = P("}") /\ n <= Len(toks)
                /\ toks[j].k = "l" /\ toks[j].v \in SingleLetters
                /\ toks[n] = P("{")
             THEN <<P("}"), P(","), P("{")>> \o RemoveStrayLetters(toks, n + 1)
             ELSE <<toks[i]>> \o RemoveStrayLetters(toks, i + 1)

\* re.sub(r'([,{]\s*)([a-zA-Z_][a-zA-Z0-9_]*)\s*:', r'\1"\2":', text), from
\* position i on.
RECURSIVE QuotePropertyNames(_, _)
QuotePropertyNames(toks, i) ==
    IF i > Len(toks) THEN <<>>
    ELSE LET j == SkipWs(toks, i + 1)
             n == SkipWs(toks, j + 1)
         IN  IF /\ toks[i] \in {P(","), P("{")} /\ n <= Len(toks)
                /\ toks[j].k = "l" /\ toks[n] = P(":")
             THEN SubSeq(toks, i, j - 1) \o <<S(toks[j].v), P(":")>>
                    \o QuotePropertyNames(toks, n + 1)
             ELSE <<toks[i]>> \o QuotePropertyNames(toks, i + 1)

\* Line 76: text.replace('\n', '\\n'): every newline becomes backslash, n.
EscapeControlCharacters(toks) ==
    [i \in 1..Len(toks) |-> IF toks[i] = NL THEN EscapedNL ELSE toks[i]]

\* fix_json.
fix_json(toks) ==
    LET t1 == FixSmartQuotes(TrimToJson(toks))
        t3 == RemoveTrailingCommas(t1, 1)
        t4 == InsertCommas(InsertCommas(t3, 1, "}", "{"), 1, "]", "[")
        t6 == RemoveStrayLetters(t4, 1)
        t7 == QuotePropertyNames(t6, 1)
    IN  EscapeControlCharacters(t7)

\* Lines 113-134: the fix that the message of the JSONDecodeError selects.
TargetedFix(toks, err) ==
    IF err.msg = "Expecting property name enclosed in double quotes"
    THEN QuotePropertyNames(toks, 1)
    ELSE IF /\ err.msg = "Expecting ',' delimiter"
            /\ err.pos > 1 /\ err.pos <= Len(toks)
            /\ IsClose(toks[err.pos - 1])
    THEN SubSeq(toks, 1, err.pos - 1) \o <<P(",")>> \o SubSeq(toks, err.pos, Len(toks))
    ELSE toks

(***************************************************************************)
(* _extract_structure, on tokens.                                          *)
(***************************************************************************)
False == [t |-> "false", v |-> "", items |-> <<>>]

\* The positions at which r'"<name>"\s*:\s*"([^"]+)"' matches: the position
\* of the value is Matched(toks, i, name), 0 if there is no match at i.
Matched(toks, i, name) ==
    LET colon == SkipWs(toks, i + 1)
        val == SkipWs(toks, colon + 1)
    IN  IF /\ toks[i] = S(name) /\ val <= Len(toks)
           /\ toks[colon] = P(":") /\ toks[val].k = "s" /\ toks[val].v # ""
        THEN val ELSE 0

\* re.search(...).group(1), or the default when nothing matches.
SearchField(toks, name, default) ==
    LET hits == {i \in 1..Len(toks) : Matched(toks, i, name) # 0} IN
    IF hits = {} THEN default
    ELSE toks[Matched(toks, CHOOSE i \in hits : \A j \in hits : i <= j, name)].v

\* re.finditer(chapter_pattern, text, re.DOTALL), from position i on: a
\* heading, then the last body that no } separates from it.
RECURSIVE FindChapters(_, _)
FindChapters(toks, i) ==
    IF i > Len(toks) THEN <<>>
    ELSE LET h == Matched(toks, i, "heading")
             bodies == {b \in (h + 1)..Len(toks) :
                          /\ Matched(toks, b, "body") # 0
                          /\ \A n \in (h + 1)..(b - 1) : toks[n] # P("}")}
             last_body == CHOOSE b \in bodies : \A c \in bodies : b >= c
         IN  IF h = 0 \/ bodies = {} THEN FindChapters(toks, i + 1)
             ELSE <<Obj(<<Item("heading", Str(toks[h].v)),
                          Item("body", Str(toks[Matched(toks, last_body, "body")].v))>>)>>
                    \o FindChapters(toks, Matched(toks, last_body, "body") + 1)

\* The documents of the model carry no "broll_keywords" array.
extract_structure(toks) ==
    Obj(<<Item("version", Str("script.v1")),
          Item("title", Str(SearchField(toks, "title", "Untitled"))),
          Item("hook", Str(SearchField(toks, "hook", ""))),
          Item("narration",
               Obj(<<Item("intro", Str(SearchField(toks, "intro", ""))),
                     Item("chapters", Arr(FindChapters(toks, 1))),
                     Item("outro", Str(SearchField(toks, "outro", "Thanks for watching!")))>>)),
          Item("broll_keywords", Arr(<<>>)),
          Item("policy_checklist",
               Obj(<<Item("copyright_risk", False),
                     Item("medical_or_financial_claims", False),
                     Item("nsfw", False),
                     Item("shocking_or_graphic", False)>>))>>)

(***************************************************************************)
(* The texts parse_with_fixes is tried on: a script document, written      *)
(* with or without each of a number of defects, and a few other texts.     *)
(***************************************************************************)
Intro == "Welcome to the show"
Outro == "See you next time"

DocOptions ==
    [trailing : {"none", "object", "array"},  \* a comma before a closing } or ]
     sep : {"comma", "letter", "none"},       \* what separates the two chapters
     smart : BOOLEAN,                         \* curly quotation marks
     bare : BOOLEAN,                          \* property names without quotes
     pretty : BOOLEAN,                        \* one item per line
     prose : BOOLEAN]                         \* words before and after the document

\* The document without its whitespace.
DocTokens(o) ==
    LET V(v) == IF o.smart THEN Q(v) ELSE S(v)
        K(v) == IF o.bare THEN L(v) ELSE V(v)
        Chapter(h, b) == <<P("{"), K("heading"), P(":"), V(h), P(","),
                           K("body"), P(":"), V(b), P("}")>>
        between == CASE o.sep = "comma" -> <<P(",")>>
                     [] o.sep = "letter" -> <<L("e")>>
                     [] o.sep = "none" -> <<>>
        Trail(where) == IF o.trailing = where THEN <<P(",")>> ELSE <<>>
    IN  <<P("{"), K("title"), P(":"), V("A title"), P(","),
          K("narration"), P(":"), P("{"),
          K("intro"), P(":"), V(Intro), P(","),
          K("chapters"), P(":"), P("[")>>
        \o Chapter("One", "First body") \o between
        \o Chapter("Two", "Second body") \o Trail("array")
        \o <<P("]"), P(","), K("outro"), P(":"), V(Outro)>> \o Trail("object")
        \o <<P("}"), P("}")>>

\* The whitespace written between two adjacent tokens.
Between(a, b, pretty) ==
    IF a = P(":") THEN <<SP>>
    ELSE IF a = P(",") THEN (IF pretty THEN <<NL>> ELSE <<SP>>)
    ELSE IF pretty /\ (IsOpen(a) \/ IsClose(b)) THEN <<NL>>
    ELSE IF (IsClose(a) \/ a.k = "l") /\ (IsOpen(b) \/ b.k = "l") THEN <<SP>>
    ELSE <<>>

RECURSIVE Layout(_, _, _)
Layout(toks, i, pretty) ==
    IF i > Len(toks) THEN <<>>
    ELSE IF i = Len(toks) THEN <<toks[i]>>
    ELSE <<toks[i]>> \o Between(toks[i], toks[i + 1], pretty)
           \o Layout(toks, i + 1, pretty)

Document(o) ==
    LET doc == Layout(DocTokens(o), 1, o.pretty) IN
    IF o.prose
    THEN <<L("Here"), SP, L("it"), SP, L("is"), P(":"), NL>> \o doc
           \o <<NL, L("Enjoy")>>
    ELSE doc

OtherTexts ==
    { <<>>, <<L("hello")>>, <<S("just a string")>>,
      <<P("["), S("a"), P(","), SP, S("b"), P("]")>>,
      <<P("["), S("a"), P(","), SP, S("b"), P(","), P("]")>> }

\* dict.get on a parsed object.
Get(value, key) ==
    LET hits == {n \in 1..Len(value.items) : value.items[n].key = key} IN
    IF value.t # "obj" \/ hits = {} THEN Null
    ELSE value.items[CHOOSE n \in hits : TRUE].val

max_attempts == 5

JfInit ==
    /\ jf_text \in {Document(o) : o \in DocOptions} \cup OtherTexts
    /\ jf_pc = "called" /\ fixed_text = <<>> /\ attempt = 0
    /\ jf_out = NoParse

\* A variant of ParseWithFixes_AsIs that repairs the text before it is parsed.
ParseWithFixes_FixFirst ==
    /\ jf_pc = "called"
    /\ fixed_text' = fix_json(jf_text)
    /\ jf_pc' = "loop"
    /\ UNCHANGED <<jf_text, attempt, jf_out, notJf>>

\* Lines 96-103: the text is parsed as it is; when that fails, fix_json.
ParseWithFixes_AsIs ==
    /\ jf_pc = "called"
    /\ LET r == Loads(jf_text) IN
         IF r.ok
         THEN /\ jf_out' = [kind |-> "value", value |-> r.value, via |-> "as_is"]
              /\ jf_pc' = "returned"
              /\ UNCHANGED fixed_text
         ELSE /\ fixed_text' = fix_json(jf_text)
              /\ jf_pc' = "loop"
              /\ UNCHANGED jf_out
    /\ UNCHANGED <<jf_text, attempt, notJf>>

\* Lines 105-137: one iteration of the loop.
ParseWithFixes_Attempt ==
    /\ jf_pc = "loop"
    /\ attempt < max_attempts
    /\ LET r == Loads(fixed_text) IN
         IF r.ok
         THEN /\ jf_out' = [kind |-> "value", value |-> r.value, via |-> "fixed"]
              /\ jf_pc' = "returned"
              /\ UNCHANGED <<fixed_text, attempt>>
         ELSE /\ fixed_text' = TargetedFix(fixed_text, r)
              /\ attempt' = attempt + 1
              /\ UNCHANGED <<jf_pc, jf_out>>
    /\ UNCHANGED <<jf_text, notJf>>

\* Lines 139-143: the structure is extracted from the original text.
ParseWithFixes_Extract ==
    /\ jf_pc = "loop"
    /\ attempt = max_attempts
    /\ jf_out' = [kind |-> "value", value |-> extract_structure(jf_text),
                  via |-> "extracted"]
    /\ jf_pc' = "returned"
    /\ UNCHANGED <<jf_text, fixed_text, attempt, notJf>>

JfNext ==
    \/ ParseWithFixes_AsIs
    \/ ParseWithFixes_Attempt
    \/ ParseWithFixes_Extract

InitJsonFixer == JfInit /\ CoreIdle /\ UpIdle /\ TtsIdle /\ ClsIdle /\ RnIdle /\ SgIdle /\ ExtIdle

SpecJsonFixer == InitJsonFixer /\ [][JfNext]_vars

\* C17: parse_with_fixes never raises, and for a script document written
\* with a trailing comma before a closing bracket, with a stray single
\* letter between two objects, or with curly quotation marks it returns a
\* dictionary whose 'narration' has the intro and the outro of the input.
C17_RepairedScriptKeepsNarration ==
    jf_pc = "returned" =>
      /\ jf_out.kind = "value"
      /\ \A o \in DocOptions :
           /\ o.trailing # "none" \/ o.sep = "letter" \/ o.smart
           /\ o.sep # "none" /\ ~o.bare /\ ~o.prose
           /\ jf_text = Document(o)
           => LET narration == Get(jf_out.value, "narration") IN
              /\ jf_out.value.t = "obj" /\ narration.t = "obj"
              /\ Get(narration, "intro") = Str(Intro)
              /\ Get(narration, "outro") = Str(Outro)

\* C18: parse_with_fixes applied to a text that is valid JSON returns the
\* value json.loads returns for it, and no repair has been applied.
C18_ValidJsonReturnedAsIs ==
    jf_pc = "returned" /\ Loads(jf_text).ok =>
      /\ jf_out = [kind |-> "value", value |-> Loads(jf_text).value, via |-> "as_is"]
      /\ fixed_text = <<>> /\ attempt = 0
C18_Witness ==
    /\ jf_pc = "returned" /\ jf_out.via = "as_is"
    /\ jf_text = Document([trailing |-> "none", sep |-> "comma", smart |-> FALSE,
                           bare |-> FALSE, pretty |-> TRUE, prose |-> FALSE])
    /\ Get(Get(jf_out.value, "narration"), "outro") = Str(Outro)

(***************************************************************************)
(*              SCRIPT GENERATOR  (src/src/modules/script_gen.py)          *)
(***************************************************************************)

\* `required` of _validate_script.
RequiredFields == {"version", "title", "hook", "narration", "broll_keywords",
                   "disclaimers", "policy_checklist"}
NarrationFields == {"intro", "chapters", "outro"}
TopicIds == {"listicle", "ai_news", "explainer"}
\* The lengths of the post's title and of the title the LLM writes.
PostTitleLengths == {60, 100, 130}
LlmTitleLengths == {80, 120}

\* The templates (lines 123-232): every key, the title cut to 100 characters.
GenerateFromTemplate(in) ==
    [keys |-> RequiredFields, version |-> "script.v1",
     title |-> SubSeq(in.title, 1, Min(Len(in.title), 100)),
     narration |-> NarrationFields]

\* _generate_with_llm: the response when it parses as a dictionary whose
\* version is 'script.v1', the template otherwise (lines 309-320).
GenerateWithLlm(in) ==
    IF in.response.kind = "json_object"
         /\ "version" \in in.response.script.keys
         /\ in.response.script.version = "script.v1"
    THEN in.response.script
    ELSE GenerateFromTemplate(in)

\* _validate_script.
ValidateScript(script) ==
    [keys |-> script.keys \cup {"version", "disclaimers", "broll_keywords",
                                "policy_checklist"},
     version |-> IF "version" \in script.keys THEN script.version ELSE "script.v1",
     title |-> IF "title" \in script.keys
               THEN SubSeq(script.title, 1, Min(Len(script.title), 100))
               ELSE script.title,
     narration |-> IF "narration" \in script.keys
                   THEN script.narration \cup {"chapters", "intro", "outro"}
                   ELSE script.narration]

\* The metadata generate_script adds to the validated script.
AddMetadata(script) ==
    [script EXCEPT !.keys = @ \cup {"generated_at", "post_id", "target_minutes"}]

\* The dictionaries the LLM may answer with: any of the keys missing, a
\* right or wrong version, any of the narration keys missing.
LlmScripts ==
    {[keys |-> k, version |-> v, title |-> t, narration |-> n] :
        k \in SUBSET RequiredFields, v \in {"script.v1", "script.v2"},
        t \in {Text(l) : l \in LlmTitleLengths},
        n \in {{}, {"intro"}, {"outro", "chapters"}, NarrationFields}}
\* What is in a script is there only under its key.
WellFormed(script) ==
    /\ "version" \notin script.keys => script.version = "script.v1"
    /\ "title" \notin script.keys => script.title = Text(80)
    /\ "narration" \notin script.keys => script.narration = {}
Responses ==
    {[kind |-> "json_object", script |-> sc] : sc \in {x \in LlmScripts : WellFormed(x)}}
      \cup {[kind |-> "error", script |-> NoScript]}

SgInit ==
    /\ sg_in \in [dry_run : BOOLEAN, api_key : BOOLEAN, topic_id : TopicIds,
                  title : {Text(l) : l \in PostTitleLengths},
                  response : Responses \cup {NoResponse}]
    \* the LLM answers when it is asked, and only then
    /\ (sg_in.response = NoResponse) <=> (sg_in.dry_run \/ ~sg_in.api_key)
    /\ sg_pc = "new" /\ sg_self = [dry_run |-> TRUE, client |-> "None"]
    /\ sg_out = NoScript

\* ScriptGenerator.__init__
NewScriptGenerator ==
    /\ sg_pc = "new"
    /\ sg_self' = IF ~sg_in.dry_run /\ sg_in.api_key
                  THEN [dry_run |-> FALSE, client |-> "OpenAI"]
                  ELSE [dry_run |-> TRUE, client |-> "None"]
    /\ sg_pc' = "ready"
    /\ UNCHANGED <<sg_in, sg_out, notSg>>

\* generate_script on the template path.
GenerateScript_Template ==
    /\ sg_pc = "ready"
    /\ sg_self.dry_run \/ sg_self.client = "None"
    /\ sg_out' = AddMetadata(ValidateScript(GenerateFromTemplate(sg_in)))
    /\ sg_pc' = "returned"
    /\ UNCHANGED <<sg_in, sg_self, notSg>>

\* generate_script on the LLM path.
GenerateScript_Llm ==
    /\ sg_pc = "ready"
    /\ ~(sg_self.dry_run \/ sg_self.client = "None")
    /\ sg_out' = AddMetadata(ValidateScript(GenerateWithLlm(sg_in)))
    /\ sg_pc' = "returned"
    /\ UNCHANGED <<sg_in, sg_self, notSg>>

SgNext ==
    \/ NewScriptGenerator
    \/ GenerateScript_Template
    \/ GenerateScript_Llm

InitScriptGen == SgInit /\ CoreIdle /\ UpIdle /\ TtsIdle /\ ClsIdle /\ RnIdle /\ JfIdle /\ ExtIdle

SpecScriptGen == InitScriptGen /\ [][SgNext]_vars

\* C20: every script generate_script returns, on the template path and on
\* the LLM path, has all seven required top-level fields and an intro and an
\* outro in its narration, and its title has at most 100 characters.
C20_ScriptComplete ==
    sg_pc = "returned" =>
      /\ {"version", "title", "hook", "narration", "broll_keywords",
          "disclaimers", "policy_checklist"} \subseteq sg_out.keys
      /\ {"intro", "outro"} \subseteq sg_out.narration
      /\ Len(sg_out.title) <= 100

(***************************************************************************)
(*        SYNCHRONOUS GATEWAY: THE POST CACHE  (src/app_enhanced.py)       *)
(***************************************************************************)

\* Seconds in a day: timedelta keeps whole days apart from `seconds`.
DaySeconds == 86400
\* The cache expiry of get_reddit_posts, in seconds.
CacheExpiry == 300
\* The instants at which the gateway is asked for posts.
Instants == {0, 299, 300, 86399, 86400, 86700}

\* timedelta.seconds of a non-negative difference d of two instants.
TimedeltaSeconds(d) == d % DaySeconds

\* The keys of SUBREDDITS the interface sends, and one it does not know.
SubredditKeys == {"all", "unknown"}

\* What praw lists: submissions with the length of their title and the
\* over_18 mark; "raises" when the Reddit client cannot be built.
HotSubmission(id, title_len, over_18) ==
    [id |-> id, title_len |-> title_len, over_18 |-> over_18]
HotListings ==
    {<<>>,
     <<HotSubmission(2, 20, FALSE), HotSubmission(3, 40, TRUE)>>,
     <<HotSubmission(1, 21, FALSE)>>,
     <<HotSubmission(3, 40, TRUE), HotSubmission(4, 30, FALSE),
       HotSubmission(1, 21, FALSE)>>}

\* The filter of the fetch loop: titles longer than 20, not over_18.
RECURSIVE KeepPosts(_)
KeepPosts(listing) ==
    IF listing = <<>> THEN <<>>
    ELSE LET sub == Head(listing)
         IN (IF sub.title_len > 20 /\ ~sub.over_18 THEN <<sub.id>> ELSE <<>>)
              \o KeepPosts(Tail(listing))

\* The cache check: an entry for the key whose timedelta.seconds is < 300.
CacheFresh(key) ==
    /\ key \in DOMAIN cached_posts
    /\ key \in DOMAIN cache_timestamps
    /\ TimedeltaSeconds(rc_now - cache_timestamps[key]) < CacheExpiry

EntryAge(key) ==
    IF key \in DOMAIN cache_timestamps THEN rc_now - cache_timestamps[key] ELSE 0

RcInit ==
    /\ rc_now = 0 /\ cached_posts = EmptyMap /\ cache_timestamps = EmptyMap
    /\ rc_out = NoRcOut

\* Time passes between two requests.
RcTick ==
    /\ \E t \in Instants : t > rc_now /\ rc_now' = t
    /\ UNCHANGED <<cached_posts, cache_timestamps, rc_out, notRc>>

\* get_reddit_posts(key) answered from the cache.
GetRedditPosts_Cached ==
    \E key \in SubredditKeys :
        /\ CacheFresh(key)
        /\ rc_out' = [key |-> key, had_entry |-> TRUE, age |-> EntryAge(key),
                      from_cache |-> TRUE, fetched |-> FALSE,
                      posts |-> cached_posts[key]]
        /\ UNCHANGED <<rc_now, cached_posts, cache_timestamps, notRc>>

\* get_reddit_posts(key) fetching from Reddit.
GetRedditPosts_Fetch ==
    \E key \in SubredditKeys, listing \in HotListings :
        /\ ~CacheFresh(key)
        /\ LET kept == KeepPosts(listing)
           IN /\ IF kept # <<>>
                 THEN /\ cached_posts' = Put(cached_posts, key, kept)
                      /\ cache_timestamps' = Put(cache_timestamps, key, rc_now)
                 ELSE UNCHANGED <<cached_posts, cache_timestamps>>
              /\ rc_out' = [key |-> key,
                            had_entry |-> key \in DOMAIN cached_posts,
                            age |-> EntryAge(key), from_cache |-> FALSE,
                            fetched |-> TRUE, posts |-> kept]
        /\ UNCHANGED <<rc_now, notRc>>

\* get_reddit_posts(key) when the Reddit client raises: the empty list.
GetRedditPosts_Error ==
    \E key \in SubredditKeys :
        /\ ~CacheFresh(key)
        /\ rc_out' = [key |-> key, had_entry |-> key \in DOMAIN cached_posts,
                      age |-> EntryAge(key), from_cache |-> FALSE,
                      fetched |-> FALSE, posts |-> <<>>]
        /\ UNCHANGED <<rc_now, cached_posts, cache_timestamps, notRc>>

RcNext ==
    \/ RcTick
    \/ GetRedditPosts_Cached
    \/ GetRedditPosts_Fetch
    \/ GetRedditPosts_Error

InitRedditCache == RcInit /\ CoreIdle /\ MidIdle /\ SpIdle /\ FaIdle /\ YtIdle

SpecRedditCache == InitRedditCache /\ [][RcNext]_vars

\* C21: get_reddit_posts answers from the cache only while the entry of the
\* group is less than 5 minutes (300 seconds) old, fetches for an entry of
\* any greater age, and never stores an empty fetch result.
C21_CacheFiveMinutes ==
    /\ rc_out.from_cache => rc_out.age < 300
    /\ \A k \in DOMAIN cached_posts : cached_posts[k] # <<>>

(***************************************************************************)
(*        TEXT SPLITTER  (src/src/modules/tts.py, split_text_for_api)      *)
(***************************************************************************)

MaxTextLen == 5   \* characters of the text
MaxChars == 7     \* the largest max_chars
Characters == {"a", "b", ".", " ", "\n"}

RECURSIVE TextsOfLength(_)
TextsOfLength(n) ==
    IF n = 0 THEN {<<>>}
    ELSE {Append(t, c) : t \in TextsOfLength(n - 1), c \in Characters}

\* text.replace('\n', ' ')
ReplaceNewlines(text) ==
    [i \in 1..Len(text) |-> IF text[i] = "\n" THEN " " ELSE text[i]]

\* str.split('. '): the pieces between the occurrences of ". ", found from
\* the left; `piece` is the piece being read.
RECURSIVE SplitDotSpace(_, _)
SplitDotSpace(text, piece) ==
    IF text = <<>> THEN <<piece>>
    ELSE IF Len(text) >= 2 /\ text[1] = "." /\ text[2] = " "
         THEN <<piece>> \o SplitDotSpace(SubSeq(text, 3, Len(text)), <<>>)
         ELSE SplitDotSpace(Tail(text), Append(piece, Head(text)))

\* The loop of lines 303-312 over the sentences left.
RECURSIVE ChunkLoop(_, _, _, _)
ChunkLoop(sentences, chunks, current_chunk, max_chars) ==
    IF sentences = <<>> THEN [chunks |-> chunks, current_chunk |-> current_chunk]
    ELSE LET sentence == Head(sentences) IN
         IF Len(current_chunk) + Len(sentence) + 2 <= max_chars
         THEN ChunkLoop(Tail(sentences), chunks,
                        IF current_chunk # <<>>
                        THEN current_chunk \o <<".", " ">> \o sentence
                        ELSE sentence,
                        max_chars)
         ELSE ChunkLoop(Tail(sentences),
                        IF current_chunk # <<>>
                        THEN Append(chunks, Append(current_chunk, "."))
                        ELSE chunks,
                        sentence, max_chars)

EndsWithPeriod(chunk) == chunk # <<>> /\ chunk[Len(chunk)] = "."

split_text_for_api(text, max_chars) ==
    LET sentences == SplitDotSpace(ReplaceNewlines(text), <<>>)
        done == ChunkLoop(sentences, <<>>, <<>>, max_chars)
    IN  IF done.current_chunk # <<>>
        THEN Append(done.chunks,
                    IF ~EndsWithPeriod(done.current_chunk)
                    THEN Append(done.current_chunk, ".")
                    ELSE done.current_chunk)
        ELSE done.chunks

SpInit ==
    /\ sp_text \in UNION {TextsOfLength(n) : n \in 0..MaxTextLen}
    /\ sp_max \in 1..MaxChars
    /\ sp_pc = "called" /\ sp_chunks = <<>>

SplitTextForApi ==
    /\ sp_pc = "called"
    /\ sp_chunks' = split_text_for_api(sp_text, sp_max)
    /\ sp_pc' = "returned"
    /\ UNCHANGED <<sp_text, sp_max, notSp>>

SpNext == SplitTextForApi

InitSplitter == SpInit /\ CoreIdle /\ MidIdle /\ RcIdle /\ FaIdle /\ YtIdle

SpecSplitter == InitSplitter /\ [][SpNext]_vars

\* The letters of a text, in order: what is left of it without periods,
\* spaces and newlines.
RECURSIVE Letters(_)
Letters(text) ==
    IF text = <<>> THEN <<>>
    ELSE (IF Head(text) \in {".", " ", "\n"} THEN <<>> ELSE <<Head(text)>>)
           \o Letters(Tail(text))

RECURSIVE Concat(_)
Concat(seqs) == IF seqs = <<>> THEN <<>> ELSE Head(seqs) \o Concat(Tail(seqs))

\* C22: for every text and every max_chars, each chunk split_text_for_api
\* returns has at most max_chars characters and ends with a period, and the
\* chunks hold the sentences of the text in their order, none dropped.
C22_ChunksWithinLimit ==
    sp_pc = "returned" =>
      /\ \A i \in 1..Len(sp_chunks) :
            /\ Len(sp_chunks[i]) <= sp_max
            /\ EndsWithPeriod(sp_chunks[i])
      /\ Letters(Concat(sp_chunks)) = Letters(sp_text)

(***************************************************************************)
(*   CONCURRENT FIXED ASSEMBLY  (src/src/modules/assemble_fixed.py)        *)
(***************************************************************************)

\* Two jobs assemble at once in the same working directory, each with its
\* own VideoAssembler, a playable audio file and clips of positive duration.
FaJobs == {1, 2}

\* The directory paths of the model: the relative path of line 17 and a
\* path per job.
JobDir == [j \in FaJobs |-> IF j = 1 THEN "temp_assembly/1" ELSE "temp_assembly/2"]
FaPaths == {"temp_assembly"} \cup {JobDir[j] : j \in FaJobs}

\* A variant of TempDir that gives every job a directory of its own.
TempDirPerJob(j) == JobDir[j]

\* VideoAssembler.temp_dir (line 17): the same relative path for every job.
TempDir(j) == "temp_assembly"

\* A directory: concat_list.txt and concatenated.mp4 are named by the job
\* whose clips they hold, 0 when the file is not there.
EmptyDir == [exists |-> TRUE, list |-> 0, video |-> 0]
NoDir == [exists |-> FALSE, list |-> 0, video |-> 0]

FaInit ==
    /\ fa_jobs = [j \in FaJobs |-> [pc |-> "start", listed |-> 0, used |-> 0,
                                     outcome |-> "running"]]
    /\ fa_dirs = [d \in FaPaths |-> IF d \in {TempDir(j) : j \in FaJobs}
                                    THEN EmptyDir ELSE NoDir]

\* create_concatenated_video, lines 64-68: the list of the job's clips is
\* written to concat_list.txt; open() raises when the directory is gone.
WriteConcatList(j) ==
    /\ fa_jobs[j].pc = "start"
    /\ IF fa_dirs[TempDir(j)].exists
       THEN /\ fa_dirs' = [fa_dirs EXCEPT ![TempDir(j)].list = j]
            /\ fa_jobs' = [fa_jobs EXCEPT ![j].pc = "listed"]
       ELSE /\ fa_jobs' = [fa_jobs EXCEPT ![j].pc = "done",
                                          ![j].outcome = "write_failed"]
            /\ UNCHANGED fa_dirs
    /\ UNCHANGED notFa

\* Lines 70-84: ffmpeg reads concat_list.txt and writes concatenated.mp4
\* from the clips it names; a missing list or directory makes it fail, and
\* the error leaves assemble_video before its try block.
Concatenate(j) ==
    /\ fa_jobs[j].pc = "listed"
    /\ LET dir == fa_dirs[TempDir(j)] IN
       IF dir.exists /\ dir.list # 0
       THEN /\ fa_dirs' = [fa_dirs EXCEPT ![TempDir(j)].video = dir.list]
            /\ fa_jobs' = [fa_jobs EXCEPT ![j].pc = "concatenated",
                                          ![j].listed = dir.list]
       ELSE /\ fa_jobs' = [fa_jobs EXCEPT ![j].pc = "done",
                                          ![j].outcome = "concat_failed"]
            /\ UNCHANGED fa_dirs
    /\ UNCHANGED notFa

\* assemble_video, lines 107-149: the final mux reads concatenated.mp4.
FinalMux(j) ==
    /\ fa_jobs[j].pc = "concatenated"
    /\ LET dir == fa_dirs[TempDir(j)] IN
       IF dir.exists /\ dir.video # 0
       THEN fa_jobs' = [fa_jobs EXCEPT ![j].pc = "cleanup", ![j].used = dir.video,
                                       ![j].outcome = "ok"]
       ELSE fa_jobs' = [fa_jobs EXCEPT ![j].pc = "cleanup",
                                       ![j].outcome = "mux_failed"]
    /\ UNCHANGED <<fa_dirs, notFa>>

\* cleanup, lines 158-160: shutil.rmtree of the directory, if it exists.
CleanupRmtree(j) ==
    /\ fa_jobs[j].pc = "cleanup"
    /\ IF fa_dirs[TempDir(j)].exists
       THEN /\ fa_dirs' = [fa_dirs EXCEPT ![TempDir(j)] = NoDir]
            /\ fa_jobs' = [fa_jobs EXCEPT ![j].pc = "mkdir"]
       ELSE /\ fa_jobs' = [fa_jobs EXCEPT ![j].pc = "done"]
            /\ UNCHANGED fa_dirs
    /\ UNCHANGED notFa

\* cleanup, line 161: the empty directory is made again.
CleanupMkdir(j) ==
    /\ fa_jobs[j].pc = "mkdir"
    /\ fa_dirs' = [fa_dirs EXCEPT ![TempDir(j)].exists = TRUE]
    /\ fa_jobs' = [fa_jobs EXCEPT ![j].pc = "done"]
    /\ UNCHANGED notFa

FaWriteConcatList == \E j \in FaJobs : WriteConcatList(j)
FaConcatenate == \E j \in FaJobs : Concatenate(j)
FaFinalMux == \E j \in FaJobs : FinalMux(j)
FaCleanupRmtree == \E j \in FaJobs : CleanupRmtree(j)
FaCleanupMkdir == \E j \in FaJobs : CleanupMkdir(j)

FaNext ==
    \/ FaWriteConcatList \/ FaConcatenate \/ FaFinalMux
    \/ FaCleanupRmtree \/ FaCleanupMkdir

InitFixedJobs == FaInit /\ CoreIdle /\ MidIdle /\ RcIdle /\ SpIdle /\ YtIdle

SpecFixedJobs == InitFixedJobs /\ [][FaNext]_vars

\* C26: two jobs that run the Fixed strategy in the same working directory
\* share the one path temp_assembly: no job has files anywhere else, a job's
\* concatenation and final mux read whatever is at that path, so what they
\* read can be the other job's, and a job whose files were deleted by the
\* other job's cleanup fails.
C26_SharedTempAssembly ==
    /\ \A d \in DOMAIN fa_dirs : d # "temp_assembly" => fa_dirs[d] = NoDir
    /\ \A j \in FaJobs :
         /\ fa_jobs[j].pc = "listed" =>
              (fa_dirs["temp_assembly"].list = j
                 \/ \E k \in FaJobs \ {j} : fa_jobs[k].pc # "start")
         /\ fa_jobs[j].outcome \in {"write_failed", "concat_failed", "mux_failed"} =>
              \E k \in FaJobs \ {j} : fa_jobs[k].pc \in {"mkdir", "done"}
         /\ (fa_jobs[j].outcome = "ok" /\ fa_jobs[j].used # j) =>
              \E k \in FaJobs \ {j} : fa_jobs[j].used = k /\ fa_jobs[k].pc # "start"

\* C26 witness: job 2 overwrote the list job 1 had written before job 1's
\* concatenation read it, so job 1's final mux consumed job 2's clips; and
\* job 1's cleanup deleted the concatenated video before job 2's final mux,
\* which failed.
C26_Witness ==
    /\ fa_jobs[1].outcome = "ok" /\ fa_jobs[1].listed = 2 /\ fa_jobs[1].used = 2
    /\ fa_jobs[2].outcome = "mux_failed"
    /\ fa_jobs[1].pc = "done" /\ fa_jobs[2].pc = "done"

(***************************************************************************)
(*   POST /api/upload-youtube  (src/app_enhanced.py)                       *)
(***************************************************************************)

\* The jobs a request can name.
UploadJobs == {"job_a", "job_b"}

\* What a request finds: whether data/out/<job_id> holds a video_*.mp4;
\* whether it holds a script_*.json, and whether that file loads and has the
\* keys the metadata reads; whether a credentials file exists; what
\* uploader.authenticate() does; what uploader.upload_video() does.
UploadRequests ==
    [job : UploadJobs, video : BOOLEAN, script : {"missing", "ok", "malformed"},
     credentials : BOOLEAN, authenticate : {"true", "false", "raises"},
     upload : {"video_id", "none", "raises"}]

\* The percentages upload_video passes to progress_callback, in order.
ProgressValues == {50, 100}

\* The records of upload_progress; a key the record lacks is "absent".
ProgressStarting == [progress |-> 0, status |-> "starting", video_id |-> "absent",
                     error |-> "absent"]
ProgressUploading(progress) ==
    [progress |-> progress, status |-> "uploading", video_id |-> "absent",
     error |-> "absent"]
ProgressComplete == [progress |-> 100, status |-> "complete", video_id |-> "id",
                     error |-> "absent"]
ProgressFailed == [progress |-> 0, status |-> "failed", video_id |-> "absent",
                   error |-> "absent"]
ProgressError == [progress |-> 0, status |-> "error", video_id |-> "absent",
                  error |-> "str(e)"]

YtInit ==
    /\ upload_progress = EmptyMap /\ yt_pc = "idle" /\ yt_req = NoYtReq
    /\ yt_http = 0

\* Lines 602-609: the request is read and its job's record set to 'starting'.
UploadToYoutube_Begin ==
    /\ yt_pc \in {"idle", "returned"}
    /\ \E req \in UploadRequests :
         /\ yt_req' = req
         /\ upload_progress' = Put(upload_progress, req.job, ProgressStarting)
    /\ yt_pc' = "started"
    /\ yt_http' = 0
    /\ UNCHANGED notYt

\* The except block, lines 698-702.
ExceptRecord(job) ==
    IF job \in DOMAIN upload_progress
    THEN Put(upload_progress, job, ProgressError) ELSE upload_progress

\* Lines 611-644: a return without a video, without a script, without
\* credentials, or when authentication fails.
UploadToYoutube_EarlyReturn ==
    /\ yt_pc = "started"
    /\ \/ /\ ~yt_req.video
          /\ yt_http' = 404
       \/ /\ yt_req.video /\ yt_req.script = "missing"
          /\ yt_http' = 404
       \/ /\ yt_req.video /\ yt_req.script = "ok" /\ ~yt_req.credentials
          /\ yt_http' = 404
       \/ /\ yt_req.video /\ yt_req.script = "ok" /\ yt_req.credentials
          /\ yt_req.authenticate = "false"
          /\ yt_http' = 401
    /\ yt_pc' = "returned"
    /\ UNCHANGED <<upload_progress, yt_req, notYt>>

\* Lines 621-653 raising: the script file does not load or lacks a key the
\* metadata reads, or authenticate() raises; the except block answers.
UploadToYoutube_PrepareRaises ==
    /\ yt_pc = "started"
    /\ yt_req.video
    /\ \/ yt_req.script = "malformed"
       \/ /\ yt_req.script = "ok" /\ yt_req.credentials
          /\ yt_req.authenticate = "raises"
    /\ upload_progress' = ExceptRecord(yt_req.job)
    /\ yt_http' = 500
    /\ yt_pc' = "returned"
    /\ UNCHANGED <<yt_req, notYt>>

\* Line 661: the upload starts.
UploadToYoutube_StartUpload ==
    /\ yt_pc = "started"
    /\ yt_req.video /\ yt_req.script = "ok" /\ yt_req.credentials
    /\ yt_req.authenticate = "true"
    /\ upload_progress' = Put(upload_progress, yt_req.job, ProgressUploading(0))
    /\ yt_pc' = "uploading"
    /\ UNCHANGED <<yt_req, yt_http, notYt>>

\* update_progress, lines 656-658, called by upload_video.
UpdateProgress ==
    /\ yt_pc = "uploading"
    /\ \E progress \in ProgressValues :
         /\ progress > upload_progress[yt_req.job].progress
         /\ upload_progress' =
              Put(upload_progress, yt_req.job, ProgressUploading(progress))
    /\ UNCHANGED <<yt_pc, yt_req, yt_http, notYt>>

\* Lines 662-696 and 698-702: upload_video returns a video id, returns None,
\* or raises.
UploadToYoutube_Finish ==
    /\ yt_pc = "uploading"
    /\ CASE yt_req.upload = "video_id" ->
              /\ upload_progress' = Put(upload_progress, yt_req.job, ProgressComplete)
              /\ yt_http' = 200
         [] yt_req.upload = "none" ->
              /\ upload_progress' = Put(upload_progress, yt_req.job, ProgressFailed)
              /\ yt_http' = 500
         [] OTHER ->
              /\ upload_progress' = ExceptRecord(yt_req.job)
              /\ yt_http' = 500
    /\ yt_pc' = "returned"
    /\ UNCHANGED <<yt_req, notYt>>

YtNext ==
    \/ UploadToYoutube_Begin \/ UploadToYoutube_EarlyReturn
    \/ UploadToYoutube_PrepareRaises \/ UploadToYoutube_StartUpload
    \/ UpdateProgress \/ UploadToYoutube_Finish

InitYoutube == YtInit /\ CoreIdle /\ MidIdle /\ RcIdle /\ SpIdle /\ FaIdle

SpecYoutube == InitYoutube /\ [][YtNext]_vars

\* C29: once a POST /api/upload-youtube request has returned, with any HTTP
\* status, the progress record of every job is terminal: 'complete' with
\* progress 100 and a video id, or 'failed' or 'error'; never 'starting' or
\* 'uploading'.
C29_ProgressTerminal ==
    yt_pc = "returned" =>
      \A job \in DOMAIN upload_progress :
         \/ /\ upload_progress[job].status = "complete"
            /\ upload_progress[job].progress = 100
            /\ upload_progress[job].video_id # "absent"
         \/ upload_progress[job].status \in {"failed", "error"}

====
